---- MODULE Spec2Model ----
(***************************************************************************)
(* Model of the @accord/host runtime (packages/@accord/host/src/index.ts): *)
(* the remote registry, the URL-keyed script cache, loadRemote with its    *)
(* timeout race, and mount with prop application, event listeners,         *)
(* fallback rendering and unmount.                                         *)
(*                                                                         *)
(* Execution is single-threaded: every action below is one synchronous run *)
(* of code (a call from the host, a script load/error event, a timer, the  *)
(* continuation of a mount after its await).  Promise reactions are        *)
(* microtasks: they run before the next task (event, timer, clock tick).   *)
(***************************************************************************)
EXTENDS Integers, Sequences, FiniteSets, TLC

\* ------------------------------------------------------------------ bounds
MaxLoads == 3        \* loadRemote calls issued in one run of Spec
MaxCalls == 2        \* loadRemote and mount calls issued in one run of SpecMount
MaxPropMounts == 1   \* mount calls issued in one run of SpecProps
MaxEventMounts == 1  \* mount calls issued in one run of SpecEvents
MaxEvents == 3       \* events dispatched in one run of SpecEvents
MaxUnmountCalls == 2 \* mount calls issued in one run of SpecUnmount
MaxElementMounts == 1 \* mount calls issued in one run of SpecElement
MaxOrderMounts == 1  \* mount calls issued in one run of SpecOrder
MaxOrderEvents == 3  \* events dispatched in one run of SpecOrder
MaxLiveCalls == 2    \* loadRemote and mount calls issued in one run of SpecLive
MaxStack == 8        \* nested schemaToType calls the call stack has room for
MaxRegistryCalls == 2 \* loadRemote and mount calls issued in one run of SpecRegistry

\* ------------------------------------------------------------------ inputs
Ids == {"a", "b"}
TimeoutMs == {1, 2}
\* What the injected script does while document.head.appendChild runs:
\* nothing yet ("later"), or it signals load or error synchronously.
Signals == {"later", "load", "error"}

\* RemoteRegistration values the host registers: ids a and b share one url,
\* and b carries an integrity hash.
Registrations ==
    { [id |-> "a", url |-> "u1", integrity |-> ""],
      [id |-> "b", url |-> "u1", integrity |-> "sha-b"] }

VARIABLES
    remoteRegistry,   \* Map id -> RemoteRegistration (a function on the registered ids)
    scriptCache,      \* Map url -> ScriptState: the index in scripts of the cached promise
    scripts,          \* script elements created so far, each with its scriptPromise
    loads,            \* loadRemote calls so far, each with the promise it returned
    mounts,           \* mount calls so far: options, position, handle
    nodes,            \* DOM elements other than scripts, by identity
    children,         \* container -> its child nodes, in order
    dispatched,       \* events dispatched on mounted elements, in order
    onEventCalls,     \* invocations of the onEvent callbacks, in order
    warnings,         \* console.warn calls, in order
    compat,           \* @accord/manifest: a call of resolveCompatibility and its result
    validation,       \* @accord/manifest: a call of validateManifest and its result
    typegen,          \* @accord/types: a run of generateTypes, its file system and exit code
    translation       \* @accord/types: a call of schemaToType and its result

loaderVars == <<remoteRegistry, scriptCache, scripts, loads>>
eventVars == <<dispatched, onEventCalls, warnings>>
mountVars == <<mounts, nodes, children, dispatched, onEventCalls, warnings>>
\* the state of the packages other than @accord/host
toolVars == <<compat, validation, typegen, translation>>
vars == <<remoteRegistry, scriptCache, scripts, loads,
          mounts, nodes, children, dispatched, onEventCalls, warnings,
          compat, validation, typegen, translation>>

\* ------------------------------------------------------------------ errors
\* An Error is modelled by what its message names.
NoError == [kind |-> "none", id |-> "", ms |-> 0]
NotRegisteredError(id) == [kind |-> "not-registered", id |-> id, ms |-> 0]
LoadFailedError(id) == [kind |-> "load-failed", id |-> id, ms |-> 0]
TimeoutError(id, ms) == [kind |-> "timeout", id |-> id, ms |-> ms]
\* thrown by manifest.props.parse(props)
PropValidationError == [kind |-> "prop-validation", id |-> "", ms |-> 0]
\* thrown by a fallback function that fails
FallbackFunctionError == [kind |-> "fallback-threw", id |-> "", ms |-> 0]

\* ------------------------------------------------------------------ loader
\* The <script> built by the promise executor, with the state of scriptPromise.
\* id is the id captured by the onerror closure.
NewScript(registration, id, signal) ==
    [ src |-> registration.url,
      integrity |-> registration.integrity,
      crossOrigin |-> IF registration.integrity # "" THEN "anonymous" ELSE "",
      id |-> id,
      state |-> CASE signal = "load" -> "loaded"
                  [] signal = "error" -> "failed"
                  [] OTHER -> "pending",
      inDocument |-> signal # "error" ]

\* The state and error a promise racing scripts[s] has as soon as scripts[s]
\* has that state.
Outcome(script) ==
    CASE script.state = "loaded" -> [state |-> "resolved", error |-> NoError]
      [] script.state = "failed" -> [state |-> "rejected", error |-> LoadFailedError(script.id)]
      [] OTHER -> [state |-> "pending", error |-> NoError]

Cleared == 0 - 1

\* The delay of the timer pTimeout arms for a call racing scripts[s].
RaceDelayOfCreator(timeoutMs, s) ==
    IF \E c \in DOMAIN loads : loads[c].script = s
    THEN loads[CHOOSE c \in DOMAIN loads :
                 loads[c].script = s /\ loads[c].found = "none"].timeoutMs
    ELSE timeoutMs
RaceDelay(timeoutMs, s) == timeoutMs

\* pTimeout(promise, {milliseconds, message}): the promise a call returns.
\* timer is the time left on its timer, or Cleared once the promise has settled;
\* found is what scriptCache.get returned: "none", or the state the cached
\* promise had.
PTimeout(id, timeoutMs, s, script, found) ==
    [ id |-> id,
      timeoutMs |-> timeoutMs,
      url |-> script.src,
      timer |-> IF script.state = "pending" THEN RaceDelay(timeoutMs, s) ELSE Cleared,
      script |-> s,
      found |-> found,
      state |-> Outcome(script).state,
      error |-> Outcome(script).error ]

\* The call of an unregistered id: the async function throws.
Unregistered(id, timeoutMs) ==
    [ id |-> id,
      timeoutMs |-> timeoutMs,
      url |-> "",
      timer |-> Cleared,
      script |-> 0,
      found |-> "none",
      state |-> "rejected",
      error |-> NotRegisteredError(id) ]

\* The key of scriptCache for a registration.
CacheKeyById(registration) == registration.id
CacheKey(registration) == registration.url

\* scriptCache.set(url, {promise})
CacheSet(cache, url, s) ==
    [u \in (DOMAIN cache) \cup {url} |-> IF u = url THEN s ELSE cache[u]]

\* scriptCache.delete(url)
CacheDelete(cache, url) ==
    [u \in (DOMAIN cache) \ {url} |-> cache[u]]

\* The body of loadRemote: it has no await, so it runs to its return in one go.
LoadRemoteBody(id, timeoutMs, signal) ==
    IF id \notin DOMAIN remoteRegistry
    THEN /\ loads' = Append(loads, Unregistered(id, timeoutMs))
         /\ UNCHANGED <<scripts, scriptCache>>
    ELSE LET registration == remoteRegistry[id] IN
         IF CacheKey(registration) \in DOMAIN scriptCache
         THEN LET s == scriptCache[CacheKey(registration)] IN
              /\ loads' = Append(loads, PTimeout(id, timeoutMs, s, scripts[s],
                                                 scripts[s].state))
              /\ UNCHANGED <<scripts, scriptCache>>
         ELSE LET script == NewScript(registration, id, signal)
                  s == Len(scripts) + 1
              IN
              /\ scripts' = Append(scripts, script)
                 \* an error signalled during appendChild runs scriptCache.delete
                 \* before this set
              /\ scriptCache' = CacheSet(scriptCache, CacheKey(registration), s)
              /\ loads' = Append(loads, PTimeout(id, timeoutMs, s, script, "none"))

\* Promises racing scripts[s] settle with it unless their timer has fired.
SettleWaiters(s, script) ==
    [c \in DOMAIN loads |->
        IF loads[c].script = s /\ loads[c].state = "pending"
        THEN [loads[c] EXCEPT !.state = Outcome(script).state,
                              !.error = Outcome(script).error,
                              !.timer = Cleared]
        ELSE loads[c]]

\* A mount whose awaited loadRemote promise has settled continues in a
\* microtask, before any further event, timer or clock tick.
MicrotasksDrained ==
    \A m \in DOMAIN mounts :
        mounts[m].state = "loading" => loads[mounts[m].load].state = "pending"

\* ------------------------------------------------------------------ values
\* A JavaScript value of a prop: t is its typeof (with null and undefined
\* apart), s/n/b the payload of a string/number/boolean, s the name of any
\* other value.
Val(t, s, n, b) == [t |-> t, s |-> s, n |-> n, b |-> b]
StringVal(s) == Val("string", s, 0, FALSE)
NumberVal(n) == Val("number", "", n, FALSE)
BooleanVal(b) == Val("boolean", "", 0, b)
ObjectVal(name) == Val("object", name, 0, FALSE)
FunctionVal(name) == Val("function", name, 0, FALSE)
NullVal == Val("null", "", 0, FALSE)
UndefinedVal == Val("undefined", "", 0, FALSE)

Digit(d) ==
    CASE d = 0 -> "0" [] d = 1 -> "1" [] d = 2 -> "2" [] d = 3 -> "3" [] d = 4 -> "4"
      [] d = 5 -> "5" [] d = 6 -> "6" [] d = 7 -> "7" [] d = 8 -> "8" [] d = 9 -> "9"

RECURSIVE NatToString(_)
NatToString(n) ==
    IF n < 10 THEN Digit(n) ELSE NatToString(n \div 10) \o Digit(n % 10)

\* String(value) for a string or an integer number
String(value) ==
    IF value.t = "string" THEN value.s
    ELSE IF value.n < 0 THEN "-" \o NatToString(0 - value.n)
    ELSE NatToString(value.n)

\* ------------------------------------------------------------------ DOM
\* document.createElement(tagName)
CreateElement(tagName) ==
    [tag |-> tagName, text |-> "", attrs |-> << >>, props |-> << >>]

MapSet(map, key, value) ==
    [k \in (DOMAIN map) \cup {key} |-> IF k = key THEN value ELSE map[k]]

MapRemove(map, key) ==
    [k \in (DOMAIN map) \ {key} |-> map[k]]

SetAttribute(element, key, value) ==
    [element EXCEPT !.attrs = MapSet(@, key, value)]

RemoveAttribute(element, key) ==
    [element EXCEPT !.attrs = MapRemove(@, key)]

\* element[key] = value
SetProperty(element, key, value) ==
    [element EXCEPT !.props = MapSet(@, key, value)]

Without(seq, n) == SelectSeq(seq, LAMBDA x : x # n)

IsChild(kids, container, n) ==
    \E i \in DOMAIN kids[container] : kids[container][i] = n

\* container.replaceChildren(n): n leaves its previous parent
AppendChild(kids, container, n) ==
    [c \in DOMAIN kids |->
        IF c = container THEN Append(Without(kids[c], n), n) ELSE Without(kids[c], n)]
ReplaceChildren(kids, container, n) ==
    [c \in DOMAIN kids |-> IF c = container THEN <<n>> ELSE Without(kids[c], n)]

\* container.removeChild(n)
RemoveChild(kids, container, n) ==
    [kids EXCEPT ![container] = Without(@, n)]

\* ------------------------------------------------------------------ mounter
\* One iteration of the loop of applyProps.
ApplyPropStringifying(element, key, value) ==
    IF value.t = "undefined" THEN element
    ELSE IF value.t \in {"string", "number"}
    THEN SetProperty(SetAttribute(element, key, String(value)), key, value)
    ELSE IF value.t = "boolean"
    THEN SetAttribute(SetProperty(element, key, value), key,
                      IF value.b THEN "true" ELSE "false")
    ELSE SetProperty(element, key, value)
ApplyProp(element, key, value) ==
    IF value.t = "undefined" THEN element
    ELSE IF value.t \in {"string", "number"}
    THEN SetProperty(SetAttribute(element, key, String(value)), key, value)
    ELSE IF value.t = "boolean"
    THEN IF value.b
         THEN SetAttribute(SetProperty(element, key, value), key, "")
         ELSE RemoveAttribute(SetProperty(element, key, value), key)
    ELSE SetProperty(element, key, value)

\* applyProps(element, props), props given as Object.entries(props)
RECURSIVE ApplyProps(_, _)
ApplyProps(element, entries) ==
    IF entries = << >> THEN element
    ELSE ApplyProps(ApplyProp(element, Head(entries)[1], Head(entries)[2]), Tail(entries))

\* if (hostApi) element.host = hostApi
AttachHostAlways(element, hostApi) ==
    SetProperty(element, "host", ObjectVal(hostApi))
AttachHost(element, hostApi) ==
    IF hostApi # "" THEN SetProperty(element, "host", ObjectVal(hostApi)) ELSE element

\* A schema is modelled by the set of values it accepts.
NoSchema == [defined |-> FALSE, accepts |-> {}]
Schema(accepted) == [defined |-> TRUE, accepts |-> accepted]
Parses(schema, value) == value \in schema.accepts

\* manifest?.props && dev, and manifest.props.parse(props) throws
PropsRejected(options) ==
    /\ options.manifest.props.defined
    /\ options.dev
    /\ ~Parses(options.manifest.props, options.props)

\* The event names mount attaches a listener for.
ListenedEvents(options) == DOMAIN options.manifest.events

\* if (fallback)
Truthy(fallback) ==
    /\ fallback.kind # "undefined"
    /\ fallback.kind = "string" => fallback.text # ""

\* renderFallback(container, fallback) on the DOM <<nodes, children>>;
\* threw tells that the fallback function failed.
RenderFallbackAppending(dom, container, fallback) ==
    IF fallback.kind = "function" /\ fallback.throws
    THEN [nodes |-> dom.nodes, children |-> dom.children, threw |-> TRUE]
    ELSE IF fallback.kind = "element"
    THEN [nodes |-> dom.nodes,
          children |-> AppendChild(dom.children, container, fallback.node),
          threw |-> FALSE]
    ELSE LET element ==
                 IF fallback.kind = "function"
                 THEN CreateElement("fallback-fn")
                 ELSE [CreateElement("div") EXCEPT !.text = fallback.text]
             n == Len(dom.nodes) + 1
         IN [nodes |-> Append(dom.nodes, element),
             children |-> AppendChild(dom.children, container, n),
             threw |-> FALSE]
RenderFallback(dom, container, fallback) ==
    IF fallback.kind = "function" /\ fallback.throws
    THEN [nodes |-> dom.nodes, children |-> dom.children, threw |-> TRUE]
    ELSE IF fallback.kind = "element"
    THEN [nodes |-> dom.nodes,
          children |-> ReplaceChildren(dom.children, container, fallback.node),
          threw |-> FALSE]
    ELSE LET element ==
                 IF fallback.kind = "function"
                 THEN CreateElement("fallback-fn")
                 ELSE [CreateElement("div") EXCEPT !.text = fallback.text]
             n == Len(dom.nodes) + 1
         IN [nodes |-> Append(dom.nodes, element),
             children |-> ReplaceChildren(dom.children, container, n),
             threw |-> FALSE]

\* The catch block of mount, entered with error on the DOM dom.
CatchClearingContainer(m, dom, error) ==
    LET options == mounts[m].options
        after == IF Truthy(options.fallback)
                 THEN RenderFallback(dom, options.container, options.fallback)
                 ELSE [nodes |-> dom.nodes,
                       children |-> [dom.children EXCEPT ![options.container] = << >>],
                       threw |-> FALSE]
    IN
    /\ nodes' = after.nodes
    /\ children' = after.children
    /\ mounts' = [mounts EXCEPT
                    ![m].state = "rejected",
                    ![m].error = IF after.threw THEN FallbackFunctionError ELSE error]
Catch(m, dom, error) ==
    LET options == mounts[m].options
        after == IF Truthy(options.fallback)
                 THEN RenderFallback(dom, options.container, options.fallback)
                 ELSE [nodes |-> dom.nodes, children |-> dom.children, threw |-> FALSE]
    IN
    /\ nodes' = after.nodes
    /\ children' = after.children
    /\ mounts' = [mounts EXCEPT
                    ![m].state = "rejected",
                    ![m].error = IF after.threw THEN FallbackFunctionError ELSE error]

\* The try block of mount after await loadRemote has resolved.
Try(m) ==
    LET options == mounts[m].options
        n == Len(nodes) + 1
        created == CreateElement(options.tagName)
    IN
    IF PropsRejected(options)
    THEN Catch(m, [nodes |-> Append(nodes, created), children |-> children],
               PropValidationError)
    ELSE LET element == AttachHost(ApplyProps(created, options.props), options.hostApi) IN
         /\ nodes' = Append(nodes, element)
         /\ children' = ReplaceChildren(children, options.container, n)
         /\ mounts' = [mounts EXCEPT ![m].state = "resolved",
                                     ![m].element = n,
                                     ![m].listeners = ListenedEvents(options)]

\* ------------------------------------------------------------------ actions
RegisterRemoteReplacingAll(registration) ==
    /\ remoteRegistry' = [i \in {registration.id} |-> registration]
    /\ remoteRegistry' # remoteRegistry
    /\ UNCHANGED <<scriptCache, scripts, loads>>
    /\ UNCHANGED mountVars
    /\ UNCHANGED toolVars
RegisterRemote(registration) ==
    /\ remoteRegistry' =
         [i \in (DOMAIN remoteRegistry) \cup {registration.id} |->
            IF i = registration.id THEN registration ELSE remoteRegistry[i]]
    /\ remoteRegistry' # remoteRegistry
    /\ UNCHANGED <<scriptCache, scripts, loads>>
    /\ UNCHANGED mountVars
    /\ UNCHANGED toolVars

LoadRemote(id, timeoutMs, signal) ==
    /\ LoadRemoteBody(id, timeoutMs, signal)
    /\ UNCHANGED remoteRegistry
    /\ UNCHANGED mountVars
    /\ UNCHANGED toolVars

\* script.onload
ScriptOnload(s) ==
    /\ MicrotasksDrained
    /\ scripts[s].state = "pending"
    /\ LET script == [scripts[s] EXCEPT !.state = "loaded"] IN
       /\ scripts' = [scripts EXCEPT ![s] = script]
       /\ loads' = SettleWaiters(s, script)
    /\ UNCHANGED <<remoteRegistry, scriptCache>>
    /\ UNCHANGED mountVars
    /\ UNCHANGED toolVars

\* script.onerror, fired after appendChild returned
ScriptOnerror(s) ==
    /\ MicrotasksDrained
    /\ scripts[s].state = "pending"
    /\ LET script == [scripts[s] EXCEPT !.state = "failed", !.inDocument = FALSE] IN
       /\ scriptCache' = CacheDelete(scriptCache, script.src)
       /\ scripts' = [scripts EXCEPT ![s] = script]
       /\ loads' = SettleWaiters(s, script)
    /\ UNCHANGED remoteRegistry
    /\ UNCHANGED mountVars
    /\ UNCHANGED toolVars

\* The timer of pTimeout fires: only this call's promise rejects.
TimeoutEvicting(c) ==
    /\ MicrotasksDrained
    /\ loads[c].state = "pending"
    /\ loads[c].timer = 0
    /\ loads' = [loads EXCEPT ![c].state = "rejected",
                              ![c].error = TimeoutError(loads[c].id, loads[c].timeoutMs),
                              ![c].timer = Cleared]
    /\ scriptCache' = CacheDelete(scriptCache, loads[c].url)
    /\ UNCHANGED <<remoteRegistry, scripts>>
    /\ UNCHANGED mountVars
    /\ UNCHANGED toolVars
TimeoutWithoutReject(c) ==
    /\ MicrotasksDrained
    /\ loads[c].state = "pending"
    /\ loads[c].timer = 0
    /\ loads' = [loads EXCEPT ![c].timer = Cleared]
    /\ UNCHANGED <<remoteRegistry, scriptCache, scripts>>
    /\ UNCHANGED mountVars
    /\ UNCHANGED toolVars
Timeout(c) ==
    /\ MicrotasksDrained
    /\ loads[c].state = "pending"
    /\ loads[c].timer = 0
    /\ loads' = [loads EXCEPT ![c].state = "rejected",
                              ![c].error = TimeoutError(loads[c].id, loads[c].timeoutMs),
                              ![c].timer = Cleared]
    /\ UNCHANGED <<remoteRegistry, scriptCache, scripts>>
    /\ UNCHANGED mountVars
    /\ UNCHANGED toolVars

\* Time passes; a timer that is due fires before the clock moves on.
Tick ==
    /\ MicrotasksDrained
    /\ \E c \in DOMAIN loads : loads[c].state = "pending"
    /\ \A c \in DOMAIN loads : loads[c].state = "pending" => loads[c].timer > 0
    /\ loads' = [c \in DOMAIN loads |->
                   IF loads[c].state = "pending"
                   THEN [loads[c] EXCEPT !.timer = @ - 1]
                   ELSE loads[c]]
    /\ UNCHANGED <<remoteRegistry, scriptCache, scripts>>
    /\ UNCHANGED mountVars
    /\ UNCHANGED toolVars

\* mount(options) up to its await: the call of loadRemote.
Mount(options, signal) ==
    /\ LoadRemoteBody(options.remoteId, options.timeoutMs, signal)
    /\ mounts' = Append(mounts, [ options |-> options,
                                  load |-> Len(loads) + 1,
                                  state |-> "loading",
                                  error |-> NoError,
                                  element |-> 0,
                                  listeners |-> {},
                                  unmounted |-> FALSE,
                                  repeated |-> FALSE,
                                  threw |-> FALSE ])
    /\ UNCHANGED <<remoteRegistry, nodes, children>>
    /\ UNCHANGED eventVars
    /\ UNCHANGED toolVars

\* mount after its await, to its return or throw.
MountContinueUnawaited(m) ==
    /\ mounts[m].state = "loading"
    /\ IF loads[mounts[m].load].state # "rejected"
       THEN Try(m)
       ELSE Catch(m, [nodes |-> nodes, children |-> children], loads[mounts[m].load].error)
    /\ UNCHANGED loaderVars
    /\ UNCHANGED eventVars
    /\ UNCHANGED toolVars
MountContinueOnLateLoad(m) ==
    LET load == loads[mounts[m].load]
        late == /\ mounts[m].state = "rejected" /\ mounts[m].error.kind = "timeout"
                /\ scripts[load.script].state = "loaded"
    IN
    /\ late \/ (mounts[m].state = "loading" /\ load.state # "pending")
    /\ IF late \/ load.state = "resolved"
       THEN Try(m)
       ELSE Catch(m, [nodes |-> nodes, children |-> children], load.error)
    /\ UNCHANGED loaderVars
    /\ UNCHANGED eventVars
    /\ UNCHANGED toolVars
MountContinue(m) ==
    /\ mounts[m].state = "loading"
    /\ loads[mounts[m].load].state # "pending"
    /\ IF loads[mounts[m].load].state = "resolved"
       THEN Try(m)
       ELSE Catch(m, [nodes |-> nodes, children |-> children], loads[mounts[m].load].error)
    /\ UNCHANGED loaderVars
    /\ UNCHANGED eventVars
    /\ UNCHANGED toolVars

\* The handler mount attaches for eventName (lines 181-191), run with payload
\* as event.detail.
HandlerForwardingInvalid(m, eventName, payload) ==
    LET options == mounts[m].options IN
    /\ warnings' =
         IF options.dev /\ ~Parses(options.manifest.events[eventName], payload)
         THEN Append(warnings, [mount |-> m, eventName |-> eventName])
         ELSE warnings
    /\ onEventCalls' =
         IF options.onEvent
         THEN Append(onEventCalls,
                     [mount |-> m, eventName |-> eventName, payload |-> payload])
         ELSE onEventCalls
HandlerValidatingAlways(m, eventName, payload) ==
    LET options == mounts[m].options IN
    IF ~Parses(options.manifest.events[eventName], payload)
    THEN /\ warnings' = Append(warnings, [mount |-> m, eventName |-> eventName])
         /\ UNCHANGED onEventCalls
    ELSE /\ onEventCalls' =
              IF options.onEvent
              THEN Append(onEventCalls,
                          [mount |-> m, eventName |-> eventName, payload |-> payload])
              ELSE onEventCalls
         /\ UNCHANGED warnings
Handler(m, eventName, payload) ==
    LET options == mounts[m].options IN
    IF options.dev /\ ~Parses(options.manifest.events[eventName], payload)
    THEN /\ warnings' = Append(warnings, [mount |-> m, eventName |-> eventName])
         /\ UNCHANGED onEventCalls
    ELSE /\ onEventCalls' =
              IF options.onEvent
              THEN Append(onEventCalls,
                          [mount |-> m, eventName |-> eventName, payload |-> payload])
              ELSE onEventCalls
         /\ UNCHANGED warnings

\* element.dispatchEvent(new CustomEvent(eventName, {detail: payload})) on the
\* element of mount m, by the remote component: the listener runs if attached.
DispatchIgnoringName(m, eventName, payload) ==
    /\ mounts[m].state = "resolved"
    /\ Len(dispatched) < MaxEvents
    /\ dispatched' = Append(dispatched,
                            [mount |-> m, eventName |-> eventName, payload |-> payload])
    /\ IF mounts[m].listeners # {}
       THEN Handler(m, CHOOSE e \in mounts[m].listeners : TRUE, payload)
       ELSE UNCHANGED <<onEventCalls, warnings>>
    /\ UNCHANGED loaderVars
    /\ UNCHANGED <<mounts, nodes, children>>
    /\ UNCHANGED toolVars
Dispatch(m, eventName, payload) ==
    /\ mounts[m].state = "resolved"
    /\ Len(dispatched) < MaxEvents
    /\ dispatched' = Append(dispatched,
                            [mount |-> m, eventName |-> eventName, payload |-> payload])
    /\ IF eventName \in mounts[m].listeners
       THEN Handler(m, eventName, payload)
       ELSE UNCHANGED <<onEventCalls, warnings>>
    /\ UNCHANGED loaderVars
    /\ UNCHANGED <<mounts, nodes, children>>
    /\ UNCHANGED toolVars

\* handle.unmount(): every cleanup runs, then the element leaves the container
\* if the container is still its parent.  unmounted records that the handle's
\* unmount has been called, repeated that it has been called again, threw that
\* a call raised.
Unmounted(m) ==
    [mounts EXCEPT ![m].listeners = {},
                   ![m].unmounted = TRUE,
                   ![m].repeated = mounts[m].unmounted]
\* container.removeChild(element) raises NotFoundError unless element is a
\* child of container.
UnmountUnguarded(m) ==
    /\ mounts[m].state = "resolved"
    /\ mounts' = [Unmounted(m) EXCEPT
                    ![m].threw = @ \/ ~IsChild(children, mounts[m].options.container,
                                               mounts[m].element)]
    /\ children' = RemoveChild(children, mounts[m].options.container, mounts[m].element)
    /\ UNCHANGED loaderVars
    /\ UNCHANGED nodes
    /\ UNCHANGED eventVars
    /\ UNCHANGED toolVars
UnmountClearingContainer(m) ==
    /\ mounts[m].state = "resolved"
    /\ mounts' = Unmounted(m)
    /\ children' = [children EXCEPT ![mounts[m].options.container] = << >>]
    /\ UNCHANGED loaderVars
    /\ UNCHANGED nodes
    /\ UNCHANGED eventVars
    /\ UNCHANGED toolVars
UnmountKeepingListeners(m) ==
    /\ mounts[m].state = "resolved"
    /\ mounts' = [Unmounted(m) EXCEPT ![m].listeners = mounts[m].listeners]
    /\ children' = IF IsChild(children, mounts[m].options.container, mounts[m].element)
                   THEN RemoveChild(children, mounts[m].options.container, mounts[m].element)
                   ELSE children
    /\ UNCHANGED loaderVars
    /\ UNCHANGED nodes
    /\ UNCHANGED eventVars
    /\ UNCHANGED toolVars
UnmountRemovingAnywhere(m) ==
    /\ mounts[m].state = "resolved"
    /\ mounts' = Unmounted(m)
    /\ children' = [c \in DOMAIN children |-> Without(children[c], mounts[m].element)]
    /\ UNCHANGED loaderVars
    /\ UNCHANGED nodes
    /\ UNCHANGED eventVars
    /\ UNCHANGED toolVars
Unmount(m) ==
    /\ mounts[m].state = "resolved"
    /\ mounts' = Unmounted(m)
    /\ children' = IF IsChild(children, mounts[m].options.container, mounts[m].element)
                   THEN RemoveChild(children, mounts[m].options.container, mounts[m].element)
                   ELSE children
    /\ UNCHANGED loaderVars
    /\ UNCHANGED nodes
    /\ UNCHANGED eventVars
    /\ UNCHANGED toolVars

\* The caller moves the element of a mount handle: container.appendChild(n)
\* takes n from its parent and makes it the last child of container.
HostAppend(container, n) ==
    /\ \E m \in DOMAIN mounts : mounts[m].state = "resolved" /\ mounts[m].element = n
    /\ children' = [c \in DOMAIN children |->
                      IF c = container
                      THEN Append(Without(children[c], n), n)
                      ELSE Without(children[c], n)]
    /\ children' # children
    /\ UNCHANGED loaderVars
    /\ UNCHANGED <<mounts, nodes>>
    /\ UNCHANGED eventVars
    /\ UNCHANGED toolVars

\* ------------------------------------------------------------------ @accord/manifest: versions
\* A string that semver reads is modelled as the sequence of its characters.
\* The versions and ranges below cover the part of semver's grammar the
\* inputs use: numeric versions without prerelease or build, comparators with
\* the operators ^ ~ >= <= > < = and x-ranges, joined by single spaces.
IsDigit(ch) == ch \in {"0", "1", "2", "3", "4", "5", "6", "7", "8", "9"}

DigitValue(ch) ==
    CASE ch = "0" -> 0 [] ch = "1" -> 1 [] ch = "2" -> 2 [] ch = "3" -> 3 [] ch = "4" -> 4
      [] ch = "5" -> 5 [] ch = "6" -> 6 [] ch = "7" -> 7 [] ch = "8" -> 8 [] ch = "9" -> 9

RECURSIVE NatOf(_)
NatOf(ds) ==
    IF ds = << >> THEN 0
    ELSE NatOf(SubSeq(ds, 1, Len(ds) - 1)) * 10 + DigitValue(ds[Len(ds)])

RECURSIVE NatChars(_)
NatChars(n) ==
    IF n < 10 THEN <<Digit(n)>> ELSE NatChars(n \div 10) \o <<Digit(n % 10)>>

\* The index after the run of digits that starts at i.
RECURSIVE RunEnd(_, _)
RunEnd(cs, i) ==
    IF i <= Len(cs) /\ IsDigit(cs[i]) THEN RunEnd(cs, i + 1) ELSE i

\* The pieces of cs between the occurrences of sep.
RECURSIVE Split(_, _)
Split(cs, sep) ==
    IF \A i \in DOMAIN cs : cs[i] # sep THEN <<cs>>
    ELSE LET i == CHOOSE i \in DOMAIN cs :
                     cs[i] = sep /\ \A j \in 1..(i - 1) : cs[j] # sep
         IN <<SubSeq(cs, 1, i - 1)>> \o Split(SubSeq(cs, i + 1, Len(cs)), sep)

\* A SemVer, or null (ok = FALSE).
Version(major, minor, patch) ==
    [ok |-> TRUE, major |-> major, minor |-> minor, patch |-> patch]
NullVersion == [ok |-> FALSE, major |-> 0, minor |-> 0, patch |-> 0]

\* SemVer.version: "major.minor.patch"
VersionChars(v) ==
    NatChars(v.major) \o <<".">> \o NatChars(v.minor) \o <<".">> \o NatChars(v.patch)

\* semver.coerce(version): the first run of digits, with up to two further
\* ".digits" groups, read as major.minor.patch; null when there is no digit.
Coerce(cs) ==
    LET firsts == {i \in DOMAIN cs : IsDigit(cs[i])} IN
    IF firsts = {} THEN NullVersion
    ELSE LET i == CHOOSE i \in firsts : \A f \in firsts : i <= f
             j == RunEnd(cs, i)
             hasMinor == j + 1 <= Len(cs) /\ cs[j] = "." /\ IsDigit(cs[j + 1])
             k == IF hasMinor THEN RunEnd(cs, j + 1) ELSE j
             hasPatch == hasMinor /\ k + 1 <= Len(cs) /\ cs[k] = "." /\ IsDigit(cs[k + 1])
             l == IF hasPatch THEN RunEnd(cs, k + 1) ELSE k
         IN Version(NatOf(SubSeq(cs, i, j - 1)),
                    IF hasMinor THEN NatOf(SubSeq(cs, j + 1, k - 1)) ELSE 0,
                    IF hasPatch THEN NatOf(SubSeq(cs, k + 1, l - 1)) ELSE 0)

\* One identifier of an x-range: a number without leading zero, or x, X, *
\* (X below); Bad otherwise.
X == 0 - 1
Bad == 0 - 2
XrIdentifier(cs) ==
    IF cs \in {<<"x">>, <<"X">>, <<"*">>} THEN X
    ELSE IF cs # << >> /\ (\A i \in DOMAIN cs : IsDigit(cs[i]))
            /\ (Len(cs) > 1 => cs[1] # "0")
    THEN NatOf(cs)
    ELSE Bad

\* "M", "M.m" or "M.m.p", each an x-range identifier, with "-0" allowed after
\* a full numeric version: the parts, missing ones as X, or ok = FALSE.
Partial(cs) ==
    LET n == Len(cs)
        pre == n > 2 /\ cs[n - 1] = "-" /\ cs[n] = "0"
        pieces == Split(IF pre THEN SubSeq(cs, 1, n - 2) ELSE cs, ".")
        ids == [i \in DOMAIN pieces |-> XrIdentifier(pieces[i])]
        part(i) == IF i <= Len(ids) THEN ids[i] ELSE X
    IN IF Len(pieces) > 3 \/ (\E i \in DOMAIN ids : ids[i] = Bad)
          \/ (pre /\ (Len(pieces) # 3 \/ \E i \in DOMAIN ids : ids[i] = X))
       THEN [ok |-> FALSE, major |-> X, minor |-> X, patch |-> X, pre |-> FALSE]
       ELSE [ok |-> TRUE, major |-> part(1), minor |-> part(2), patch |-> part(3),
             pre |-> pre]

\* The operator a comparator starts with, "" when it has none.
Operator(cs) ==
    IF Len(cs) >= 2 /\ <<cs[1], cs[2]>> \in {<<">", "=">>, <<"<", "=">>}
    THEN cs[1] \o cs[2]
    ELSE IF Len(cs) >= 1 /\ cs[1] \in {"^", "~", ">", "<", "="}
    THEN cs[1]
    ELSE ""
\* A comparator of a parsed range: operator and version, pre for the
\* prerelease "-0" semver puts on upper bounds.
Comparator(op, major, minor, patch, pre) ==
    [op |-> op, major |-> major, minor |-> minor, patch |-> patch, pre |-> pre]

\* ">=lo <hi-0"
Between(lo, hi) ==
    << Comparator(">=", lo[1], lo[2], lo[3], FALSE),
       Comparator("<", hi[1], hi[2], hi[3], TRUE) >>

\* The comparator sets of "*" and of "<0.0.0-0".
AnyVersion == << >>
NoVersion == << Comparator("<", 0, 0, 0, TRUE) >>

\* replaceTilde: ~M.m.p allows patch changes, ~M minor changes.
ReplaceTilde(q) ==
    IF q.major = X THEN AnyVersion
    ELSE IF q.minor = X THEN Between(<<q.major, 0, 0>>, <<q.major + 1, 0, 0>>)
    ELSE IF q.patch = X THEN Between(<<q.major, q.minor, 0>>, <<q.major, q.minor + 1, 0>>)
    ELSE Between(<<q.major, q.minor, q.patch>>, <<q.major, q.minor + 1, 0>>)

\* replaceCaret: ^ allows changes that keep the left-most non-zero part.
ReplaceCaret(q) ==
    IF q.major = X THEN AnyVersion
    ELSE IF q.minor = X THEN Between(<<q.major, 0, 0>>, <<q.major + 1, 0, 0>>)
    ELSE IF q.patch = X
    THEN IF q.major = 0
         THEN Between(<<0, q.minor, 0>>, <<0, q.minor + 1, 0>>)
         ELSE Between(<<q.major, q.minor, 0>>, <<q.major + 1, 0, 0>>)
    ELSE IF q.major = 0
    THEN IF q.minor = 0
         THEN Between(<<0, 0, q.patch>>, <<0, 0, q.patch + 1>>)
         ELSE Between(<<0, q.minor, q.patch>>, <<0, q.minor + 1, 0>>)
    ELSE Between(<<q.major, q.minor, q.patch>>, <<q.major + 1, 0, 0>>)

\* replaceXRange: a partial version under the operator op ("" for none).
ReplaceXRange(op, q) ==
    LET xM == q.major = X
        xm == xM \/ q.minor = X
        xp == xm \/ q.patch = X
        gtlt == IF op = "=" /\ xp THEN "" ELSE op
        M == q.major
        m == IF xm THEN 0 ELSE q.minor
    IN IF xM THEN (IF gtlt \in {">", "<"} THEN NoVersion ELSE AnyVersion)
       ELSE IF gtlt # "" /\ xp
       THEN CASE gtlt = ">" -> IF xm THEN <<Comparator(">=", M + 1, 0, 0, FALSE)>>
                               ELSE <<Comparator(">=", M, m + 1, 0, FALSE)>>
              [] gtlt = "<=" -> IF xm THEN <<Comparator("<", M + 1, 0, 0, TRUE)>>
                                ELSE <<Comparator("<", M, m + 1, 0, TRUE)>>
              [] gtlt = "<" -> <<Comparator("<", M, m, 0, TRUE)>>
              [] gtlt = ">=" -> <<Comparator(">=", M, m, 0, FALSE)>>
       ELSE IF xm THEN Between(<<M, 0, 0>>, <<M + 1, 0, 0>>)
       ELSE IF xp THEN Between(<<M, m, 0>>, <<M, m + 1, 0>>)
       ELSE <<Comparator(IF gtlt = "" THEN "=" ELSE gtlt, M, m, q.patch, q.pre)>>

\* parseComparator: one space-free piece of a range, as comparators.
ParseComparator(cs) ==
    LET op == Operator(cs)
        skip == IF op \in {">=", "<="} THEN 2 ELSE IF op = "" THEN 0 ELSE 1
        q == Partial(SubSeq(cs, skip + 1, Len(cs)))
    IN IF ~q.ok \/ (q.pre /\ op \in {"^", "~"}) THEN [ok |-> FALSE, set |-> << >>]
       ELSE [ok |-> TRUE,
             set |-> CASE op = "^" -> ReplaceCaret(q)
                       [] op = "~" -> ReplaceTilde(q)
                       [] OTHER -> ReplaceXRange(op, q)]

RECURSIVE Flatten(_)
Flatten(seqs) == IF seqs = << >> THEN << >> ELSE Head(seqs) \o Flatten(Tail(seqs))

\* new Range(range): the comparators all of which a version must pass, or
\* ok = FALSE where Range throws.
ParseRange(cs) ==
    IF cs = << >> THEN [ok |-> TRUE, set |-> AnyVersion]
    ELSE LET pieces == Split(cs, " ")
             parsed == [i \in DOMAIN pieces |-> ParseComparator(pieces[i])]
         IN IF \E i \in DOMAIN parsed : ~parsed[i].ok
            THEN [ok |-> FALSE, set |-> << >>]
            ELSE [ok |-> TRUE, set |-> Flatten([i \in DOMAIN parsed |-> parsed[i].set])]

\* Comparator.value
ComparatorChars(c) ==
    (CASE c.op = "=" -> << >>
       [] c.op = ">=" -> <<">", "=">>
       [] c.op = "<=" -> <<"<", "=">>
       [] OTHER -> <<c.op>>)
    \o VersionChars(c) \o (IF c.pre THEN <<"-", "0">> ELSE << >>)

\* Range.range: the comparators joined by spaces
RECURSIVE RangeChars(_)
RangeChars(set) ==
    IF set = << >> THEN << >>
    ELSE IF Len(set) = 1 THEN ComparatorChars(set[1])
    ELSE ComparatorChars(set[1]) \o <<" ">> \o RangeChars(Tail(set))

\* semver.validRange(range): the normalised range, "*" for an empty one, or
\* null (ok = FALSE).
ValidRange(cs) ==
    LET r == ParseRange(cs) IN
    IF ~r.ok THEN [ok |-> FALSE, range |-> << >>]
    ELSE [ok |-> TRUE, range |-> IF RangeChars(r.set) = << >> THEN <<"*">>
                                 ELSE RangeChars(r.set)]

\* Comparator.test(version) for a version without prerelease: M.m.p-0 sorts
\* before M.m.p.
Test(c, v) ==
    LET cmp == IF v.major # c.major THEN (IF v.major < c.major THEN 0 - 1 ELSE 1)
               ELSE IF v.minor # c.minor THEN (IF v.minor < c.minor THEN 0 - 1 ELSE 1)
               ELSE IF v.patch # c.patch THEN (IF v.patch < c.patch THEN 0 - 1 ELSE 1)
               ELSE IF c.pre THEN 1 ELSE 0
    IN CASE c.op = ">=" -> cmp >= 0
         [] c.op = "<" -> cmp < 0
         [] c.op = ">" -> cmp > 0
         [] c.op = "<=" -> cmp <= 0
         [] c.op = "=" -> cmp = 0

\* semver.satisfies(version, range): false when either does not parse.
Satisfies(version, range) ==
    LET v == Partial(version)
        r == ParseRange(range)
    IN /\ v.ok /\ ~v.pre /\ v.major # X /\ v.minor # X /\ v.patch # X
       /\ r.ok
       /\ \A i \in DOMAIN r.set : Test(r.set[i], v)

\* resolveCompatibility(hostContractRange, componentContractVersion)
ResolveCompatibilityUncoerced(hostContractRange, componentContractVersion) ==
    LET hostRange == ValidRange(hostContractRange) IN
    IF ~hostRange.ok THEN FALSE
    ELSE Satisfies(componentContractVersion, hostRange.range)
ResolveCompatibility(hostContractRange, componentContractVersion) ==
    LET hostRange == ValidRange(hostContractRange)
        componentVersion == Coerce(componentContractVersion)
    IN IF ~hostRange.ok \/ ~componentVersion.ok THEN FALSE
       ELSE Satisfies(VersionChars(componentVersion), hostRange.range)

\* No call of resolveCompatibility has been made.
NotCalled ==
    [called |-> FALSE, hostContractRange |-> << >>, componentContractVersion |-> << >>,
     result |-> FALSE]

\* The host calls resolveCompatibility on the strings it holds.
ResolveCompatibilityCall ==
    /\ ~compat.called
    /\ compat' = [compat EXCEPT
                    !.called = TRUE,
                    !.result = ResolveCompatibility(compat.hostContractRange,
                                                    compat.componentContractVersion)]
    /\ UNCHANGED loaderVars
    /\ UNCHANGED mountVars
    /\ UNCHANGED <<validation, typegen, translation>>

\* ------------------------------------------------------------------ @accord/manifest: validateManifest
\* A JavaScript value in a schema slot of a manifest: t is its typeof (null
\* apart), def tells whether it has a member _def, zod whether it is a Zod
\* schema.
JsValue(t, def, zod) == [t |-> t, def |-> def, zod |-> zod]
ZodSchema == JsValue("object", TRUE, TRUE)
\* an object with a member _def that is no Zod schema, such as {_def: {}}
DuckSchema == JsValue("object", TRUE, FALSE)
PlainObject == JsValue("object", FALSE, FALSE)
TextValue == JsValue("string", FALSE, FALSE)
NullValue == JsValue("null", FALSE, FALSE)
UndefinedValue == JsValue("undefined", FALSE, FALSE)

\* isZodType(value)
IsZodTypeByTypeof(value) == value.t \in {"object", "null"}
IsZodType(value) == value.t = "object" /\ value.def

\* A meta value: an object whose four fields are absent (<< >>) or hold a
\* string, or a value that is no object.
Meta(t, name, version, contractVersion, tagName) ==
    [t |-> t, name |-> name, version |-> version,
     contractVersion |-> contractVersion, tagName |-> tagName]

\* The issue z.string().min(1) reports for a field of an object.
StringMin1Issues(field) ==
    IF field = << >> THEN <<"Required">>
    ELSE IF field[1] = "" THEN <<"String must contain at least 1 character(s)">>
    ELSE << >>

\* contractMetaSchema.safeParse(meta): the messages of its issues, none on
\* success.
ContractMetaIssues(meta) ==
    IF meta.t = "undefined" THEN <<"Required">>
    ELSE IF meta.t # "object" THEN <<"Expected object, received " \o meta.t>>
    ELSE StringMin1Issues(meta.name) \o StringMin1Issues(meta.version)
         \o StringMin1Issues(meta.contractVersion) \o StringMin1Issues(meta.tagName)

\* A hostRequirements value: b is the value of a boolean, s of a string;
\* styling and designTokens are the fields of an object, absent (<< >>) or the
\* source text of their value.
HostRequirements(t, b, s, styling, designTokens) ==
    [t |-> t, b |-> b, s |-> s, styling |-> styling, designTokens |-> designTokens]

\* if (manifest.hostRequirements)
IsTruthy(value) ==
    CASE value.t \in {"undefined", "null"} -> FALSE
      [] value.t = "boolean" -> value.b
      [] value.t = "string" -> value.s # ""
      [] OTHER -> TRUE

\* hostRequirementsSchema.safeParse(value): the messages of its issues.
HostRequirementsIssues(value) ==
    IF value.t # "object" THEN <<"Expected object, received " \o value.t>>
    ELSE (IF value.styling = << >> \/ value.styling[1] \in {"'shadow-dom'", "'no-shadow-dom'"}
          THEN << >>
          ELSE <<"Invalid enum value. Expected 'shadow-dom' | 'no-shadow-dom', received "
                   \o value.styling[1]>>)
         \o (IF value.designTokens = << >> \/ value.designTokens[1] \in {"true", "false"}
             THEN << >>
             ELSE <<"Expected boolean, received string">>)

\* Object.entries(section ?? {}) of an events or capabilities value.
Entries(section) == IF section.t \in {"undefined", "null"} THEN << >> ELSE section.entries

\* The messages of the loop over the entries of a section.
RECURSIVE SchemaErrors(_, _)
SchemaErrors(entries, label) ==
    IF entries = << >> THEN << >>
    ELSE (IF IsZodType(Head(entries)[2]) THEN << >>
          ELSE <<label \o " schema for \"" \o Head(entries)[1] \o "\" must be a Zod schema">>)
         \o SchemaErrors(Tail(entries), label)

\* validateManifest(manifest)
ValidateManifest(manifest) ==
    LET metaIssues == ContractMetaIssues(manifest.meta)
        hostIssues == IF IsTruthy(manifest.hostRequirements)
                      THEN HostRequirementsIssues(manifest.hostRequirements)
                      ELSE << >>
        errors ==
            (IF metaIssues # << >> THEN <<"Invalid meta section">> \o metaIssues ELSE << >>)
            \o (IF ~IsZodType(manifest.props)
                THEN <<"Props schema must be a Zod schema">> ELSE << >>)
            \o SchemaErrors(Entries(manifest.events), "Event")
            \o SchemaErrors(Entries(manifest.capabilities), "Capability")
            \o (IF hostIssues # << >>
                THEN <<"Invalid hostRequirements section">> \o hostIssues ELSE << >>)
    IN [success |-> errors = << >>, errors |-> errors]

\* The manifest of the test that validates.
ValidMeta == Meta("object", <<"demo">>, <<"1.0.0">>, <<"1">>, <<"demo-element">>)
Section(t, entries) == [t |-> t, entries |-> entries]
NoHostRequirements == HostRequirements("undefined", FALSE, "", << >>, << >>)
DemoManifest ==
    [ meta |-> ValidMeta,
      props |-> ZodSchema,
      events |-> Section("object", << <<"demo:ready", ZodSchema>> >>),
      capabilities |-> Section("object", << <<"audit", ZodSchema>> >>),
      hostRequirements |-> NoHostRequirements ]

\* No call of validateManifest has been made.
NotValidated ==
    [called |-> FALSE, manifest |-> DemoManifest,
     result |-> [success |-> FALSE, errors |-> << >>]]

\* The host calls validateManifest on the manifest it holds.
ValidateManifestCall ==
    /\ ~validation.called
    /\ validation' = [validation EXCEPT !.called = TRUE,
                                        !.result = ValidateManifest(validation.manifest)]
    /\ UNCHANGED loaderVars
    /\ UNCHANGED mountVars
    /\ UNCHANGED <<compat, typegen, translation>>

\* ------------------------------------------------------------------ @accord/types: generateTypes
\* A run of the type generator: via the CLI or by a call of generateTypes;
\* args tells which options are given, response what fetch(manifestUrl) and
\* response.json() give, fs the directories and files created so far, pc the
\* position of the run.
Run(via, args, response) ==
    [via |-> via, args |-> args, response |-> response,
     pc |-> "start", fs |-> {}, error |-> "", exitCode |-> 0]

NoResponse == [ok |-> TRUE, json |-> "complete"]
NotRun ==
    Run("api", [manifestPath |-> TRUE, manifestUrl |-> FALSE, outDir |-> TRUE,
                fileName |-> FALSE], NoResponse)

\* isManifestJsonPayload(value), the fetched JSON told by what it lacks
IsManifestJsonPayload(json) == json = "complete"

\* fileName ?? (manifestUrl ? "manifest-types.d.ts" : "manifest-types.ts")
OutputFile(args) ==
    IF args.fileName THEN "out/types.ts"
    ELSE IF args.manifestUrl THEN "out/manifest-types.d.ts"
    ELSE "out/manifest-types.ts"

\* cli.ts: the usage check, then the call of generateTypes
Cli ==
    /\ typegen.via = "cli" /\ typegen.pc = "start"
    /\ typegen' =
         IF \/ ~typegen.args.outDir
            \/ (~typegen.args.manifestPath /\ ~typegen.args.manifestUrl)
            \/ (typegen.args.manifestPath /\ typegen.args.manifestUrl)
         THEN [typegen EXCEPT !.pc = "exited", !.error = "usage", !.exitCode = 1]
         ELSE [typegen EXCEPT !.pc = "mkdir"]
    /\ UNCHANGED loaderVars
    /\ UNCHANGED mountVars
    /\ UNCHANGED <<compat, validation, translation>>

\* A direct call of generateTypes(options)
GenerateTypes ==
    /\ typegen.via = "api" /\ typegen.pc = "start"
    /\ typegen' = [typegen EXCEPT !.pc = "mkdir"]
    /\ UNCHANGED loaderVars
    /\ UNCHANGED mountVars
    /\ UNCHANGED <<compat, validation, translation>>

\* await mkdir(outDir, {recursive: true})
Mkdir ==
    /\ typegen.pc = "mkdir"
    /\ typegen' = [typegen EXCEPT !.pc = "resolve", !.fs = @ \cup {"out"}]
    /\ UNCHANGED loaderVars
    /\ UNCHANGED mountVars
    /\ UNCHANGED <<compat, validation, translation>>

\* The error generateTypes throws after mkdir, "" if none.
Thrown(args, response) ==
    IF args.manifestPath /\ args.manifestUrl THEN "either-not-both"
    ELSE IF args.manifestUrl
    THEN IF ~response.ok THEN "fetch-failed"
         ELSE IF response.json = "malformed" THEN "syntax-error"
         ELSE IF ~IsManifestJsonPayload(response.json) THEN "missing-sections"
         ELSE ""
    ELSE IF ~args.manifestPath THEN "manifestPath-required"
    ELSE ""

\* generateTypes from the checks after mkdir to its return or throw, with the
\* catch of cli.ts: console.error and process.exit(1).
Generate ==
    /\ typegen.pc = "resolve"
    /\ LET error == Thrown(typegen.args, typegen.response) IN
       typegen' =
         IF error = ""
         THEN [typegen EXCEPT !.pc = "done", !.fs = @ \cup {"out", OutputFile(typegen.args)}]
         ELSE [typegen EXCEPT !.pc = IF typegen.via = "cli" THEN "exited" ELSE "rejected",
                              !.error = error,
                              !.exitCode = IF typegen.via = "cli" THEN 1 ELSE 0]
    /\ UNCHANGED loaderVars
    /\ UNCHANGED mountVars
    /\ UNCHANGED <<compat, validation, translation>>

\* ------------------------------------------------------------------ the loader alone
\* ------------------------------------------------------------------ @accord/types: schemaToType
\* A JsonSchema is a record with the fields that are present.  Where the JSON
\* field holds values of two shapes the record has one field per shape:
\* type (a string) or types (an array), items (a schema) or itemsTuple (an
\* array), additionalProperties (a boolean) or additionalSchema (a schema).
\* properties is Object.entries(properties); $ref is <<prefix, name>>.
Has(schema, field) == field \in DOMAIN schema

\* resolveRefName(ref): the name after "#/definitions/" or "#/$defs/", "" for null
ResolveRefName(ref) ==
    IF ref[1] \in {"#/definitions/", "#/$defs/"} THEN ref[2] ELSE ""

\* literalType(value)
LiteralType(value) ==
    IF value.t = "null" THEN "null"
    ELSE IF value.t = "string" THEN "\"" \o value.s \o "\""
    ELSE IF value.t = "number" THEN String(value)
    ELSE IF value.t = "boolean" THEN (IF value.b THEN "true" ELSE "false")
    ELSE "unknown"

\* A call returns a type, or it throws RangeError when the call stack is full.
Returned(type) == [ok |-> TRUE, type |-> type]
RangeError == [ok |-> FALSE, type |-> "Maximum call stack size exceeded"]

\* results.map(...).join(separator), or the RangeError one of the calls threw
RECURSIVE Join(_, _)
Join(results, separator) ==
    IF results = << >> THEN Returned("")
    ELSE IF ~Head(results).ok THEN RangeError
    ELSE IF Len(results) = 1 THEN Head(results)
    ELSE LET rest == Join(Tail(results), separator) IN
         IF rest.ok THEN Returned(Head(results).type \o separator \o rest.type)
         ELSE RangeError

\* `prefix${result}suffix`
Wrap(prefix, result, suffix) ==
    IF result.ok THEN Returned(prefix \o result.type \o suffix) ELSE RangeError

\* schemaToType(schema, definitions, visited) as the depth-th nested call.
\* inherit tells whether the calls for members, items and properties are
\* given visited; the code gives them none, so they start from new Set().
RECURSIVE Translate(_, _, _, _, _)
Translate(schema, definitions, visited, depth, inherit) ==
    LET seen == IF inherit THEN visited ELSE {}
        Each(schemas) ==
            [i \in DOMAIN schemas |->
                Translate(schemas[i], definitions, seen, depth + 1, inherit)]
        nullable(result) ==
            IF result.ok /\ Has(schema, "nullable") /\ schema.nullable
                         /\ result.type # "null"
            THEN Returned(result.type \o " | null")
            ELSE result
    IN
    IF depth > MaxStack THEN RangeError
    ELSE IF Has(schema, "$ref")
    THEN LET refName == ResolveRefName(schema["$ref"]) IN
         IF refName = "" THEN Returned("unknown")
         ELSE IF refName \in visited THEN Returned("unknown")
         ELSE IF refName \notin DOMAIN definitions THEN Returned("unknown")
         ELSE Translate(definitions[refName], definitions, visited \cup {refName},
                        depth + 1, inherit)
    ELSE IF Has(schema, "const") THEN Returned(LiteralType(schema.const))
    ELSE IF Has(schema, "enum")
    THEN IF schema.enum = << >> THEN Returned("unknown")
         ELSE Join([i \in DOMAIN schema.enum |-> Returned(LiteralType(schema.enum[i]))],
                   " | ")
    ELSE IF Has(schema, "oneOf") THEN Join(Each(schema.oneOf), " | ")
    ELSE IF Has(schema, "anyOf") THEN Join(Each(schema.anyOf), " | ")
    ELSE IF Has(schema, "allOf") THEN Join(Each(schema.allOf), " & ")
    ELSE IF Has(schema, "types")
    THEN Join(Each([i \in DOMAIN schema.types |->
                      [f \in ((DOMAIN schema) \ {"types"}) \cup {"type"} |->
                          IF f = "type" THEN schema.types[i] ELSE schema[f]]]),
              " | ")
    ELSE LET schemaType == IF Has(schema, "type") THEN schema.type ELSE "" IN
         IF schemaType = "string" THEN nullable(Returned("string"))
         ELSE IF schemaType \in {"number", "integer"} THEN nullable(Returned("number"))
         ELSE IF schemaType = "boolean" THEN nullable(Returned("boolean"))
         ELSE IF schemaType = "null" THEN nullable(Returned("null"))
         ELSE IF schemaType = "array"
         THEN IF Has(schema, "itemsTuple")
              THEN nullable(Wrap("[", Join(Each(schema.itemsTuple), ", "), "]"))
              ELSE IF Has(schema, "items")
              THEN nullable(Wrap("Array<", Each(<<schema.items>>)[1], ">"))
              ELSE nullable(Returned("unknown[]"))
         ELSE LET properties ==
                      IF Has(schema, "properties") THEN schema.properties ELSE << >>
                  required == IF Has(schema, "required") THEN schema.required ELSE {}
                  propTypes == Each([i \in DOMAIN properties |-> properties[i][2]])
                  lines ==
                      [i \in DOMAIN properties |->
                          Wrap("\"" \o properties[i][1] \o "\""
                                 \o (IF properties[i][1] \in required THEN "" ELSE "?")
                                 \o ": ",
                               propTypes[i], ";")]
                  additional ==
                      IF Has(schema, "additionalSchema")
                      THEN << Wrap("[key: string]: ", Each(<<schema.additionalSchema>>)[1],
                                   ";") >>
                      ELSE IF Has(schema, "additionalProperties")
                              /\ schema.additionalProperties
                      THEN << Returned("[key: string]: unknown;") >>
                      ELSE << >>
              IN IF lines \o additional = << >> THEN nullable(Returned("{ }"))
                 ELSE nullable(Wrap("{\n  ", Join(lines \o additional, "\n  "), "\n}"))

\* schemaToType(schema, definitions), called from outside with an empty stack
SchemaToType(schema, definitions) == Translate(schema, definitions, {}, 1, FALSE)

NotTranslated ==
    [called |-> FALSE, schema |-> [type |-> "string"], definitions |-> << >>,
     result |-> Returned("")]

\* One call of schemaToType on the schema and definitions table at hand.
SchemaToTypeCall ==
    /\ ~translation.called
    /\ translation' =
         [translation EXCEPT
            !.called = TRUE,
            !.result = SchemaToType(translation.schema, translation.definitions)]
    /\ UNCHANGED loaderVars
    /\ UNCHANGED mountVars
    /\ UNCHANGED <<compat, validation, typegen>>

\* The container c1 holds two elements of the host's page, the container c2
\* is empty; node 3 is a detached element the host may pass as a fallback.
HostInit ==
    /\ remoteRegistry = << >>
    /\ scriptCache = << >>
    /\ scripts = << >>
    /\ loads = << >>
    /\ mounts = << >>
    /\ nodes = << CreateElement("p"), CreateElement("p"), CreateElement("span") >>
    /\ children = [c \in {"c1", "c2"} |-> IF c = "c1" THEN <<1, 2>> ELSE << >>]
    /\ dispatched = << >>
    /\ onEventCalls = << >>
    /\ warnings = << >>

Init ==
    /\ HostInit
    /\ compat = NotCalled
    /\ validation = NotValidated
    /\ typegen = NotRun
    /\ translation = NotTranslated

Next ==
    \/ \E registration \in Registrations : RegisterRemote(registration)
    \/ \E id \in Ids, timeoutMs \in TimeoutMs, signal \in Signals :
          Len(loads) < MaxLoads /\ LoadRemote(id, timeoutMs, signal)
    \/ \E s \in DOMAIN scripts : ScriptOnload(s)
    \/ \E s \in DOMAIN scripts : ScriptOnerror(s)
    \/ \E c \in DOMAIN loads : Timeout(c)
    \/ Tick

Spec == Init /\ [][Next]_vars

\* ------------------------------------------------------------------ mounting
\* The fallback option: undefined, a string, an element of the host (node 3),
\* or a function that returns a new element or throws.
NoFallback == [kind |-> "undefined", text |-> "", node |-> 0, throws |-> FALSE]
StringFallback(text) == [kind |-> "string", text |-> text, node |-> 0, throws |-> FALSE]
ElementFallback(n) == [kind |-> "element", text |-> "", node |-> n, throws |-> FALSE]
FunctionFallback(throws) == [kind |-> "function", text |-> "", node |-> 0, throws |-> throws]

Fallbacks ==
    { NoFallback, StringFallback(""), StringFallback("Failed to load"),
      ElementFallback(3), FunctionFallback(FALSE), FunctionFallback(TRUE) }

\* Props that satisfy the props schema of the manifest below, and props that
\* do not.
UserProps == << <<"userId", StringVal("123")>> >>
BadProps == << <<"userId", NumberVal(7)>> >>
PropsManifest == [props |-> Schema({UserProps}), events |-> << >>]

\* The options of mount after destructuring (lines 150-161).
Options(remoteId, props, onEvent, fallback, dev, manifest) ==
    [ remoteId |-> remoteId,
      tagName |-> "demo-element",
      container |-> "c1",
      props |-> props,
      hostApi |-> "",
      onEvent |-> onEvent,
      fallback |-> fallback,
      timeoutMs |-> 1,
      dev |-> dev,
      manifest |-> manifest ]

MountOptions ==
    { Options("a", props, FALSE, fallback, TRUE, PropsManifest) :
         props \in {UserProps, BadProps}, fallback \in Fallbacks }

MountRegistrations == { [id |-> "a", url |-> "u1", integrity |-> ""] }

NextMount ==
    \/ \E registration \in MountRegistrations : RegisterRemote(registration)
    \/ Len(loads) < MaxCalls /\ LoadRemote("a", 1, "later")
    \/ \E options \in MountOptions : Len(loads) < MaxCalls /\ Mount(options, "later")
    \/ \E s \in DOMAIN scripts : ScriptOnload(s)
    \/ \E s \in DOMAIN scripts : ScriptOnerror(s)
    \/ \E c \in DOMAIN loads : Timeout(c)
    \/ Tick
    \/ \E m \in DOMAIN mounts : MountContinue(m)
    \/ \E m \in DOMAIN mounts : Unmount(m)

SpecMount == Init /\ [][NextMount]_vars

\* ------------------------------------------------------------------ prop application
\* Values of every kind applyProps tells apart.
PropValues ==
    { StringVal("123"), StringVal(""), NumberVal(2), NumberVal(0 - 10),
      BooleanVal(TRUE), BooleanVal(FALSE), ObjectVal("{nested: true}"),
      ObjectVal("[1, 2]"), FunctionVal("() => 1"), NullVal, UndefinedVal }

\* Object.entries of props with one or two keys.
PropEntries ==
    { << <<"userId", v>> >> : v \in PropValues }
    \cup { << <<"userId", v>>, <<"hidden", w>> >> : v \in PropValues, w \in PropValues }

NoManifest == [props |-> NoSchema, events |-> << >>]

PropOptions ==
    { Options("a", props, FALSE, NoFallback, FALSE, NoManifest) : props \in PropEntries }

NextProps ==
    \/ \E registration \in MountRegistrations : RegisterRemote(registration)
    \/ \E options \in PropOptions :
          Len(mounts) < MaxPropMounts /\ Mount(options, "later")
    \/ \E s \in DOMAIN scripts : ScriptOnload(s)
    \/ \E m \in DOMAIN mounts : MountContinue(m)

SpecProps == Init /\ [][NextProps]_vars

\* ------------------------------------------------------------------ events
\* The manifest of the test: one event whose schema accepts {id: "ok"}.
EventsManifest ==
    [props |-> NoSchema, events |-> [e \in {"user:selected"} |-> Schema({"{id: 'ok'}"})]]

EventOptions ==
    { Options("a", << >>, TRUE, NoFallback, TRUE, EventsManifest),
      Options("a", << >>, TRUE, NoFallback, FALSE, EventsManifest),
      Options("a", << >>, FALSE, NoFallback, TRUE, EventsManifest),
      Options("a", << >>, TRUE, NoFallback, TRUE, NoManifest) }

\* The events the remote component dispatches: name and detail.
Events ==
    { <<"user:selected", "{id: 'ok'}">>, <<"user:selected", "{id: 42}">>,
      <<"other", "{id: 'ok'}">> }

NextEvents ==
    \/ \E registration \in MountRegistrations : RegisterRemote(registration)
    \/ \E options \in EventOptions :
          Len(mounts) < MaxEventMounts /\ Mount(options, "later")
    \/ \E s \in DOMAIN scripts : ScriptOnload(s)
    \/ \E m \in DOMAIN mounts : MountContinue(m)
    \/ \E m \in DOMAIN mounts, event \in Events : Dispatch(m, event[1], event[2])
    \/ \E m \in DOMAIN mounts : Unmount(m)

SpecEvents == Init /\ [][NextEvents]_vars

\* ------------------------------------------------------------------ unmount
\* A manifest with the props schema and the event map of the test.
FullManifest == [props |-> Schema({UserProps}), events |-> EventsManifest.events]

\* A mount that succeeds once the script has loaded, and one whose props fail
\* the schema and that renders a fallback.
UnmountOptions ==
    { Options("a", UserProps, TRUE, NoFallback, TRUE, FullManifest),
      Options("a", BadProps, TRUE, StringFallback("Failed to load"), TRUE, FullManifest) }

Containers == {"c1", "c2"}

NextUnmount ==
    \/ \E registration \in MountRegistrations : RegisterRemote(registration)
    \/ \E options \in UnmountOptions :
          Len(mounts) < MaxUnmountCalls /\ Mount(options, "later")
    \/ \E s \in DOMAIN scripts : ScriptOnload(s)
    \/ \E m \in DOMAIN mounts : MountContinue(m)
    \/ \E container \in Containers, n \in DOMAIN nodes : HostAppend(container, n)
    \/ \E m \in DOMAIN mounts : Unmount(m)

SpecUnmount == Init /\ [][NextUnmount]_vars

\* ------------------------------------------------------------------ the mounted element
\* Props with an entry named like the property of the host capability.
HostProps == << <<"host", ObjectVal("{fake: true}")>> >>

WithHostApi(options, hostApi) == [options EXCEPT !.hostApi = hostApi]

\* Mounts with and without dev, props schema and hostApi, with props the
\* schema accepts and props it rejects.
ElementOptions ==
    { WithHostApi(Options("a", props, TRUE, fallback, dev, manifest), hostApi) :
         props \in {UserProps, BadProps, HostProps},
         fallback \in {NoFallback, FunctionFallback(TRUE)},
         dev \in BOOLEAN,
         manifest \in {FullManifest, EventsManifest},
         hostApi \in {"", "audit"} }

NextElement ==
    \/ \E registration \in MountRegistrations : RegisterRemote(registration)
    \/ \E options \in ElementOptions :
          Len(mounts) < MaxElementMounts /\ Mount(options, "later")
    \/ \E s \in DOMAIN scripts : ScriptOnload(s)
    \/ \E m \in DOMAIN mounts : MountContinue(m)

SpecElement == Init /\ [][NextElement]_vars

\* ------------------------------------------------------------------ the steps of a mount
\* Mounts with props, host capability, event map and onEvent, two of them
\* with props their schema rejects, with and without a fallback.
OrderOptions ==
    { WithHostApi(Options("a", UserProps, TRUE, NoFallback, TRUE, FullManifest), "audit"),
      WithHostApi(Options("a", HostProps, TRUE, NoFallback, FALSE, EventsManifest), "audit"),
      Options("a", UserProps, TRUE, NoFallback, FALSE, FullManifest),
      Options("a", BadProps, TRUE, StringFallback("Failed to load"), TRUE, FullManifest),
      Options("a", BadProps, TRUE, NoFallback, TRUE, FullManifest) }

NextOrder ==
    \/ \E registration \in MountRegistrations : RegisterRemote(registration)
    \/ \E options \in OrderOptions :
          Len(mounts) < MaxOrderMounts /\ Mount(options, "later")
    \/ \E s \in DOMAIN scripts : ScriptOnload(s)
    \/ \E s \in DOMAIN scripts : ScriptOnerror(s)
    \/ \E c \in DOMAIN loads : Timeout(c)
    \/ Tick
    \/ \E m \in DOMAIN mounts : MountContinue(m)
    \/ \E m \in DOMAIN mounts, event \in Events :
          Len(dispatched) < MaxOrderEvents /\ Dispatch(m, event[1], event[2])

SpecOrder == Init /\ [][NextOrder]_vars

\* ------------------------------------------------------------------ settling
\* Calls under a registered and an unregistered id, with scripts that signal
\* at once, later or never, and mounts that pass or fail the props schema.
LiveOptions ==
    { Options("a", UserProps, FALSE, NoFallback, TRUE, PropsManifest),
      Options("a", BadProps, FALSE, FunctionFallback(TRUE), TRUE, PropsManifest) }

NextLive ==
    \/ \E registration \in MountRegistrations : RegisterRemote(registration)
    \/ \E id \in Ids, timeoutMs \in TimeoutMs, signal \in Signals :
          Len(loads) < MaxLiveCalls /\ LoadRemote(id, timeoutMs, signal)
    \/ \E options \in LiveOptions, signal \in Signals :
          Len(loads) < MaxLiveCalls /\ Mount(options, signal)
    \/ \E s \in DOMAIN scripts : ScriptOnload(s)
    \/ \E s \in DOMAIN scripts : ScriptOnerror(s)
    \/ \E c \in DOMAIN loads : Timeout(c)
    \/ Tick
    \/ \E m \in DOMAIN mounts : MountContinue(m)

\* The event loop runs every due timer and every pending continuation, and
\* time passes; a script may never signal load or error.
SpecLive ==
    /\ Init /\ [][NextLive]_vars
    /\ WF_vars(Tick)
    /\ \A c \in 1..MaxLiveCalls : WF_vars(c \in DOMAIN loads /\ Timeout(c))
    /\ \A m \in 1..MaxLiveCalls : WF_vars(m \in DOMAIN mounts /\ MountContinue(m))

\* ------------------------------------------------------------------ the registry
\* Registrations that give id a two urls in turn.
RegistryRegistrations ==
    { [id |-> "a", url |-> "u1", integrity |-> ""],
      [id |-> "a", url |-> "u2", integrity |-> ""],
      [id |-> "b", url |-> "u1", integrity |-> ""] }

RegistryOptions ==
    { Options(id, UserProps, FALSE, NoFallback, FALSE, NoManifest) : id \in Ids }

NextRegistry ==
    \/ \E registration \in RegistryRegistrations : RegisterRemote(registration)
    \/ \E id \in Ids : Len(loads) < MaxRegistryCalls /\ LoadRemote(id, 1, "later")
    \/ \E options \in RegistryOptions :
          Len(loads) < MaxRegistryCalls /\ Mount(options, "later")
    \/ \E s \in DOMAIN scripts : ScriptOnload(s)
    \/ \E s \in DOMAIN scripts : ScriptOnerror(s)
    \/ \E c \in DOMAIN loads : Timeout(c)
    \/ Tick
    \/ \E m \in DOMAIN mounts : MountContinue(m)

SpecRegistry == Init /\ [][NextRegistry]_vars

\* ------------------------------------------------------------------ @accord/manifest: inputs
\* Ranges the host may declare, the malformed ones of the test included.
HostRanges ==
    { <<"^", "1", ".", "0", ".", "0">>,
      <<"^", "2", ".", "0", ".", "0">>,
      <<"n", "o", "t", "-", "a", "-", "r", "a", "n", "g", "e">>,
      << >>,
      <<"*">>,
      <<"1", ".", "x">>,
      <<"~", "1", ".", "2">>,
      <<">", "=", "1", ".", "2", ".", "3", " ", "<", "2", ".", "0", ".", "0">>,
      <<"^", "0", ".", "2", ".", "3">>,
      <<"<", "=", "1", ".", "2">>,
      <<">", "1">>,
      <<"1", ".", "2", ".", "3">>,
      <<"a", "b", "c">>,
      <<"=", "1", ".", "2">>,
      <<"^", "0", ".", "0", ".", "3">>,
      <<"1", ".", "2", ".", "3", ".", "4">> }

\* Contract versions a component may declare.
ComponentVersions ==
    { <<"1", ".", "2", ".", "3">>,
      <<"v", "1", ".", "2", ".", "3">>,
      <<"2", ".", "0", ".", "0">>,
      <<"1", ".", "3">>,
      <<"0", ".", "2", ".", "9">>,
      <<"1">>,
      << >>,
      <<"l", "a", "t", "e", "s", "t">>,
      <<"1", ".", "2", ".", "3", ".", "4">>,
      <<"0", ".", "0", ".", "3">>,
      <<"1", "0", ".", "0", ".", "1">> }

InitCompat ==
    /\ HostInit
    /\ compat \in { [called |-> FALSE, hostContractRange |-> r,
                     componentContractVersion |-> v, result |-> FALSE] :
                       r \in HostRanges, v \in ComponentVersions }
    /\ validation = NotValidated
    /\ typegen = NotRun
    /\ translation = NotTranslated

NextCompat == ResolveCompatibilityCall

SpecCompat == InitCompat /\ [][NextCompat]_vars

\* Manifests as a caller may pass them, well-typed or not.
Metas ==
    { ValidMeta,
      Meta("object", <<"">>, <<"1.0.0">>, <<"1">>, <<"demo-element">>),
      Meta("object", <<"demo">>, <<"1.0.0">>, <<"1">>, << >>),
      Meta("undefined", << >>, << >>, << >>, << >>) }

PropsSchemas == {ZodSchema, DuckSchema, PlainObject, TextValue, NullValue, UndefinedValue}

EventSections ==
    { Section("object", << >>),
      Section("object", << <<"demo:ready", ZodSchema>> >>),
      Section("object", << <<"demo:ready", TextValue>> >>),
      Section("object", << <<"demo:ready", ZodSchema>>, <<"demo:done", PlainObject>> >>),
      Section("undefined", << >>) }

CapabilitySections ==
    { Section("undefined", << >>),
      Section("object", << <<"audit", ZodSchema>> >>),
      Section("object", << <<"audit", TextValue>> >>) }

HostRequirementsValues ==
    { NoHostRequirements,
      HostRequirements("null", FALSE, "", << >>, << >>),
      HostRequirements("boolean", FALSE, "", << >>, << >>),
      HostRequirements("string", FALSE, "shadow-dom", << >>, << >>),
      HostRequirements("object", FALSE, "", << >>, << >>),
      HostRequirements("object", FALSE, "", <<"'shadow-dom'">>, <<"true">>),
      HostRequirements("object", FALSE, "", <<"'unknown'">>, <<"false">>) }

Manifests ==
    { [meta |-> meta, props |-> props, events |-> events,
       capabilities |-> capabilities, hostRequirements |-> hostRequirements] :
         meta \in Metas, props \in PropsSchemas, events \in EventSections,
         capabilities \in CapabilitySections, hostRequirements \in HostRequirementsValues }

InitValidate ==
    /\ HostInit
    /\ compat = NotCalled
    /\ validation \in { [called |-> FALSE, manifest |-> manifest,
                         result |-> [success |-> FALSE, errors |-> << >>]] :
                           manifest \in Manifests }
    /\ typegen = NotRun
    /\ translation = NotTranslated

NextValidate == ValidateManifestCall

SpecValidate == InitValidate /\ [][NextValidate]_vars

\* The runs of the type generator: every combination of options, with every
\* answer of the manifest server.
Responses ==
    { [ok |-> ok, json |-> json] :
        ok \in BOOLEAN,
        json \in {"complete", "no-meta", "no-props", "no-events", "events-not-record",
                  "not-record", "malformed"} }

Runs ==
    { Run(via, [manifestPath |-> manifestPath, manifestUrl |-> manifestUrl,
                outDir |-> outDir, fileName |-> fileName], response) :
        via \in {"cli", "api"}, manifestPath \in BOOLEAN, manifestUrl \in BOOLEAN,
        outDir \in BOOLEAN, fileName \in BOOLEAN, response \in Responses }

InitTypes ==
    /\ HostInit
    /\ compat = NotCalled
    /\ validation = NotValidated
    /\ typegen \in {run \in Runs :
                       /\ run.via = "api" => run.args.outDir
                       /\ ~run.args.manifestUrl => run.response = NoResponse}
    /\ translation = NotTranslated

NextTypes ==
    \/ Cli
    \/ GenerateTypes
    \/ Mkdir
    \/ Generate

SpecTypes == InitTypes /\ [][NextTypes]_vars

\* ------------------------------------------------------------------ @accord/types: schemas
\* {"$ref": "#/definitions/<name>"}
Ref(name) == [f \in {"$ref"} |-> <<"#/definitions/", name>>]
StringSchema == [type |-> "string"]

\* Definitions tables without references, with references that form no
\* cycle, and with cycles: through $ref alone, and through a property, the
\* items of an array, the members of oneOf, anyOf and allOf, additional
\* properties and a type array.
DefinitionTables ==
    { << >>,
      [n \in {"A"} |-> StringSchema],
      [n \in {"A", "B"} |-> IF n = "A" THEN Ref("B") ELSE Ref("A")],
      [n \in {"A"} |-> Ref("A")],
      [n \in {"A", "B"} |->
          IF n = "A"
          THEN [type |-> "object", properties |-> << <<"b", Ref("B")>> >>]
          ELSE [type |-> "string", nullable |-> TRUE]],
      [n \in {"A"} |->
          [type |-> "object", required |-> {"value"},
           properties |-> << <<"value", StringSchema>>, <<"next", Ref("A")>> >>]],
      [n \in {"A"} |-> [type |-> "array", items |-> Ref("A")]],
      [n \in {"A"} |-> [oneOf |-> << Ref("A"), [type |-> "null"] >>]],
      [n \in {"A", "B"} |->
          IF n = "A" THEN [anyOf |-> << StringSchema, Ref("B") >>]
          ELSE [allOf |-> << Ref("A") >>]],
      [n \in {"A", "B"} |->
          IF n = "A" THEN [type |-> "object", additionalSchema |-> Ref("B")]
          ELSE [type |-> "array", itemsTuple |-> << Ref("A"), [type |-> "number"] >>]],
      [n \in {"A"} |->
          [types |-> <<"object", "null">>, properties |-> << <<"self", Ref("A")>> >>]] }

\* Schemas of every branch of schemaToType.
Schemas ==
    { Ref("A"), Ref("B"), Ref("C"),
      [f \in {"$ref"} |-> <<"#/$defs/", "A">>],
      [f \in {"$ref"} |-> <<"https://example.com/schema#/", "A">>],
      [type |-> "object", required |-> {"a"},
       properties |-> << <<"a", Ref("A")>>, <<"n", [type |-> "integer"]>> >>],
      [type |-> "array", items |-> Ref("A")],
      [type |-> "array", nullable |-> TRUE],
      [oneOf |-> << Ref("A"), [type |-> "boolean"] >>],
      [allOf |-> << Ref("A"), Ref("B") >>],
      [const |-> StringVal("x")],
      [enum |-> << NumberVal(1), StringVal("a"), NullVal, BooleanVal(TRUE) >>],
      [enum |-> << >>],
      [types |-> <<"string", "null">>],
      [additionalProperties |-> TRUE],
      [description |-> "anything"] }

InitSchema ==
    /\ HostInit
    /\ compat = NotCalled
    /\ validation = NotValidated
    /\ typegen = NotRun
    /\ translation \in { [NotTranslated EXCEPT !.schema = schema,
                                                !.definitions = definitions] :
                            schema \in Schemas, definitions \in DefinitionTables }

NextSchema == SchemaToTypeCall

SpecSchema == InitSchema /\ [][NextSchema]_vars

\* ------------------------------------------------------------------ properties of the loader
TimedOut(load) == load.state = "rejected" /\ load.error.kind = "timeout"
\* This step is the call of loadRemote that NewLoad records.
Called == Len(loads') = Len(loads) + 1
NewLoad == loads'[Len(loads')]

\* C1: loadRemote calls issued while a script for their URL is still loading,
\* under one id or several, inject no second script and race that script's
\* promise: at most one script per URL is loading at any time, and all calls
\* racing one script that did not time out are in the state that script's
\* outcome gives them, with one and the same error.
C1_SettleTogether ==
    /\ \A s, r \in DOMAIN scripts :
          scripts[s].state = "pending" /\ scripts[r].state = "pending"
             /\ scripts[s].src = scripts[r].src => s = r
    /\ \A c, d \in DOMAIN loads :
          loads[c].script # 0 /\ loads[c].script = loads[d].script
             /\ ~TimedOut(loads[c]) /\ ~TimedOut(loads[d])
          => /\ loads[c].state = Outcome(scripts[loads[c].script]).state
             /\ loads[c].state = loads[d].state
             /\ loads[c].error.kind = loads[d].error.kind
             /\ (loads[c].state = "rejected" => loads[c].error.kind = "load-failed")

C1_OneInjection ==
    [][ /\ C1_SettleTogether'
        /\ Called =>
             \A c \in DOMAIN loads :
                loads[c].script # 0 /\ loads[c].url = NewLoad.url
                   /\ scripts[loads[c].script].state = "pending"
                => scripts' = scripts /\ NewLoad.script = loads[c].script ]_vars

\* Three calls under both ids shared the one script that was injected while it
\* was loading, and all three resolved with it.
C1_Witness ==
    /\ Len(loads) = 3 /\ Len(scripts) = 1
    /\ loads[1].found = "none" /\ loads[2].found = "pending" /\ loads[3].found = "pending"
    /\ {loads[c].id : c \in DOMAIN loads} = {"a", "b"}
    /\ \A c \in DOMAIN loads : loads[c].state = "resolved"

\* C2: a call that rejected with the script-load failure leaves no entry for
\* its URL that holds the failed load, and no later call is served the failed
\* load from the cache (it injects a new script instead), also when the error
\* was signalled during the injection.
C2_FailedLoadEvicted ==
    /\ \A u \in DOMAIN scriptCache : scripts[scriptCache[u]].state # "failed"
    /\ \A c \in DOMAIN loads : loads[c].found # "failed"

\* C3: a timer that fires rejects its own call and nothing else: the script,
\* the cache and every other call stay as they were; once a script has loaded,
\* every call racing it that did not time out is resolved, and a later call
\* for its URL injects nothing and is resolved at once.
C3_TimeoutCancelsOnlyTheWait ==
    [][ /\ \A c \in DOMAIN loads :
              ~TimedOut(loads[c]) /\ TimedOut(loads'[c])
              => /\ scripts' = scripts
                 /\ scriptCache' = scriptCache
                 /\ \A d \in DOMAIN loads : d # c => loads'[d] = loads[d]
        /\ \A c \in DOMAIN loads' :
              loads'[c].script # 0 /\ scripts'[loads'[c].script].state = "loaded"
                 /\ ~TimedOut(loads'[c])
              => loads'[c].state = "resolved"
        /\ Called =>
              \A s \in DOMAIN scripts :
                 scripts[s].state = "loaded" /\ scripts[s].src = NewLoad.url
                 => scripts' = scripts /\ NewLoad.script = s
                    /\ NewLoad.state = "resolved" ]_vars

\* One call timed out, the script loaded afterwards, a call that was still
\* waiting resolved, and so did a call made after the load.
C3_Witness ==
    /\ Len(loads) = 3 /\ Len(scripts) = 1
    /\ scripts[1].state = "loaded"
    /\ \E c, d, e \in DOMAIN loads :
          /\ TimedOut(loads[c])
          /\ loads[d].found = "pending" /\ loads[d].state = "resolved"
          /\ loads[e].found = "loaded" /\ loads[e].state = "resolved"

\* C4: each call races its own timer only: the timer is armed with the call's
\* own timeoutMs, runs down with the clock, and the call rejects with the
\* timeout error only when that timer has run out while the script was still
\* loading; a call whose timer did not fire has the script's outcome.
C4_OwnTimeoutOnly ==
    [][ /\ Called /\ NewLoad.state = "pending" => NewLoad.timer = NewLoad.timeoutMs
        /\ \A c \in DOMAIN loads :
              /\ loads[c].state = "pending" /\ loads'[c].state = "pending"
                 => loads'[c].timer \in {loads[c].timer, loads[c].timer - 1}
                    /\ loads'[c].timer >= 0
              /\ ~TimedOut(loads[c]) /\ TimedOut(loads'[c])
                 => /\ loads[c].timer = 0
                    /\ scripts[loads[c].script].state = "pending"
                    /\ loads'[c].error = TimeoutError(loads[c].id, loads[c].timeoutMs)
        /\ \A c \in DOMAIN loads' :
              loads'[c].script # 0 /\ ~TimedOut(loads'[c])
              => /\ loads'[c].state = Outcome(scripts'[loads'[c].script]).state
                 /\ loads'[c].error = Outcome(scripts'[loads'[c].script]).error ]_vars

\* The call that created the cache entry timed out after its 1 ms; a later
\* caller of the same script with 2 ms resolved with the script.
C4_Witness ==
    \E c, d \in DOMAIN loads :
       /\ loads[c].script = loads[d].script
       /\ loads[c].found = "none" /\ loads[c].timeoutMs = 1 /\ TimedOut(loads[c])
       /\ loads[d].found = "pending" /\ loads[d].timeoutMs = 2
       /\ loads[d].state = "resolved"

\* C6: a call that rejects with a load failure or a timeout gets an error
\* naming the id passed to that call, and for a timeout that call's timeoutMs.
C6_ErrorNamesCallerId ==
    \A c \in DOMAIN loads :
       loads[c].state = "rejected" /\ loads[c].error.kind \in {"load-failed", "timeout"}
       => /\ loads[c].error.id = loads[c].id
          /\ loads[c].error.kind = "timeout" => loads[c].error.ms = loads[c].timeoutMs

\* ------------------------------------------------------------------ properties of mount
\* Mount m leaves its await in this step.
Settles(m) == mounts[m].state = "loading" /\ mounts'[m].state # "loading"

\* C5: loadRemote of an id without Registry entry rejects with the
\* not-registered error naming that id, injects no script and leaves cache and
\* Registry as they were; a mount of such an id rejects with that same error.
C5_UnregisteredRejects ==
    [][ /\ Called /\ NewLoad.id \notin DOMAIN remoteRegistry
           => /\ NewLoad.state = "rejected"
              /\ NewLoad.error = [kind |-> "not-registered", id |-> NewLoad.id, ms |-> 0]
              /\ scripts' = scripts
              /\ scriptCache' = scriptCache
              /\ remoteRegistry' = remoteRegistry
        /\ \A m \in DOMAIN mounts :
              Settles(m) /\ loads[mounts[m].load].error.kind = "not-registered"
              => /\ mounts'[m].state = "rejected"
                 /\ mounts'[m].error = loads[mounts[m].load].error ]_vars

\* C7: when mount resolves, the container holds exactly one child, the element
\* mount created with the requested tag name and returned in the handle; none
\* of the children the container had before is left in it.
C7_SingleChildSlot ==
    [][ \A m \in DOMAIN mounts :
           Settles(m) /\ mounts'[m].state = "resolved"
           => LET e == mounts'[m].element
                  c == mounts[m].options.container
              IN /\ children'[c] = <<e>>
                 /\ e \notin DOMAIN nodes /\ e \in DOMAIN nodes'
                 /\ nodes'[e].tag = mounts[m].options.tagName
                 /\ \A i \in DOMAIN children[c] : ~IsChild(children', c, children[c][i]) ]_vars

\* A second mount into the container that held the element of the first one:
\* the container holds the second element alone.
C7_Witness ==
    /\ Len(mounts) = 2
    /\ mounts[1].state = "resolved" /\ mounts[2].state = "resolved"
    /\ mounts[1].element < mounts[2].element
    /\ children["c1"] = <<mounts[2].element>>

\* C8: after a mount, for every entry of props: a string or number is the
\* attribute (as a string) and the property; true is the property and the
\* attribute ""; false is the property and no attribute; an object, array,
\* function or null is the property and no attribute; undefined is neither.
Stringified(value) ==
    CASE value.t = "string" -> value.s
      [] value.t = "number" /\ value.n = 2 -> "2"
      [] value.t = "number" /\ value.n = 0 -> "0"
      [] value.t = "number" /\ value.n = 0 - 10 -> "-10"
      [] value.t = "number" /\ value.n = 0 - 11 -> "-11"

C8_PropApplication ==
    \A m \in DOMAIN mounts :
       mounts[m].state = "resolved"
       => LET element == nodes[mounts[m].element]
              entries == mounts[m].options.props
          IN \A i \in DOMAIN entries :
                LET key == entries[i][1]
                    value == entries[i][2]
                    hasAttr == key \in DOMAIN element.attrs
                    hasProp == key \in DOMAIN element.props
                IN CASE value.t \in {"string", "number"} ->
                          /\ hasAttr /\ element.attrs[key] = Stringified(value)
                          /\ hasProp /\ element.props[key] = value
                     [] value.t = "boolean" /\ value.b ->
                          /\ hasAttr /\ element.attrs[key] = ""
                          /\ hasProp /\ element.props[key] = value
                     [] value.t = "boolean" /\ ~value.b ->
                          /\ ~hasAttr
                          /\ hasProp /\ element.props[key] = value
                     [] value.t = "undefined" -> ~hasAttr /\ ~hasProp
                     [] OTHER ->
                          /\ ~hasAttr
                          /\ hasProp /\ element.props[key] = value

\* The mounted element got userId = -10 and hidden = false.
C8_Witness ==
    \E m \in DOMAIN mounts :
       /\ mounts[m].state = "resolved"
       /\ mounts[m].options.props =
             << <<"userId", NumberVal(0 - 10)>>, <<"hidden", BooleanVal(FALSE)>> >>
       /\ nodes[mounts[m].element].attrs = [k \in {"userId"} |-> "-10"]
       /\ DOMAIN nodes[mounts[m].element].props = {"userId", "hidden"}

\* C9: on an element mounted with dev and an onEvent callback, whose listeners
\* are attached, an event of the manifest's event map with a payload its
\* schema rejects logs one warning and calls onEvent not at all; one with a
\* payload the schema accepts calls onEvent once with (eventName, payload) and
\* logs nothing; either way the mount, its listeners and the DOM stay as they
\* were.
Dispatched == Len(dispatched') = Len(dispatched) + 1
NewEvent == dispatched'[Len(dispatched')]

C9_DevEventValidation ==
    [][ Dispatched =>
          LET m == NewEvent.mount
              options == mounts[m].options
              eventName == NewEvent.eventName
          IN options.dev /\ options.onEvent
                /\ eventName \in DOMAIN options.manifest.events
                /\ eventName \in mounts[m].listeners
             => /\ IF NewEvent.payload \in options.manifest.events[eventName].accepts
                   THEN /\ onEventCalls' = Append(onEventCalls, NewEvent)
                        /\ warnings' = warnings
                   ELSE /\ onEventCalls' = onEventCalls
                        /\ warnings' = Append(warnings,
                                              [mount |-> m, eventName |-> eventName])
                /\ mounts' = mounts /\ nodes' = nodes /\ children' = children ]_vars

\* An invalid event was warned about and dropped, and the valid event after it
\* was forwarded.
C9_Witness ==
    /\ Len(dispatched) = 2
    /\ mounts[1].options.dev
    /\ dispatched[1].payload = "{id: 42}" /\ dispatched[2].payload = "{id: 'ok'}"
    /\ Len(warnings) = 1
    /\ onEventCalls = << [mount |-> 1, eventName |-> "user:selected",
                          payload |-> "{id: 'ok'}"] >>

\* C10: when mount fails and the fallback is an element, a non-empty string
\* or a function that returns an element, then at the rejection the container
\* holds exactly the fallback (for a string a new div with that text), and the
\* error of the rejection is the one of the step that failed.
ProducesFallback(fallback) ==
    \/ fallback.kind = "element"
    \/ fallback.kind = "string" /\ fallback.text # ""
    \/ fallback.kind = "function" /\ ~fallback.throws

C10_FallbackOnFailure ==
    [][ \A m \in DOMAIN mounts :
           Settles(m) /\ mounts'[m].state = "rejected"
              /\ ProducesFallback(mounts[m].options.fallback)
           => LET fallback == mounts[m].options.fallback
                  kids == children'[mounts[m].options.container]
                  load == loads[mounts[m].load]
              IN /\ Len(kids) = 1
                 /\ fallback.kind = "element" => kids[1] = fallback.node
                 /\ fallback.kind = "string"
                      => /\ kids[1] \notin DOMAIN nodes
                         /\ nodes'[kids[1]].tag = "div"
                         /\ nodes'[kids[1]].text = fallback.text
                 /\ fallback.kind = "function"
                      => /\ kids[1] \notin DOMAIN nodes
                         /\ nodes'[kids[1]].tag = "fallback-fn"
                 /\ mounts'[m].error =
                      IF load.state = "rejected"
                      THEN load.error
                      ELSE [kind |-> "prop-validation", id |-> "", ms |-> 0] ]_vars

\* A mount timed out and rendered its fallback string; a second mount then
\* failed the props schema and its fallback function's element replaced it.
C10_Witness ==
    /\ Len(mounts) = 2
    /\ mounts[1].state = "rejected" /\ mounts[1].error.kind = "timeout"
    /\ mounts[1].options.fallback = StringFallback("Failed to load")
    /\ mounts[2].state = "rejected" /\ mounts[2].error.kind = "prop-validation"
    /\ mounts[2].options.fallback = FunctionFallback(FALSE)
    /\ Len(children["c1"]) = 1
    /\ nodes[children["c1"][1]].tag = "fallback-fn"
    /\ \E n \in DOMAIN nodes : nodes[n].text = "Failed to load"

\* C11: whatever the fallback (none, string, element, function, a function
\* that throws included), a mount that rejects does so with the error of the
\* step that failed: the error of its loadRemote promise, or else the props
\* validation error.
C11_OriginalErrorRethrown ==
    [][ \A m \in DOMAIN mounts :
           Settles(m) /\ mounts'[m].state = "rejected"
           => mounts'[m].error =
                 IF loads[mounts[m].load].state = "rejected"
                 THEN loads[mounts[m].load].error
                 ELSE [kind |-> "prop-validation", id |-> "", ms |-> 0] ]_vars

\* ------------------------------------------------------------------ properties of unmount
\* The handle's unmount is called on mount m in this step.
Unmounts(m) ==
    mounts[m].state = "resolved" /\ ~mounts[m].unmounted /\ mounts'[m].unmounted

\* C12: when unmount is called on a mounted element that is still a child of
\* its container, the element is no child of the container afterwards and no
\* listener is left; an event dispatched on an element whose handle has been
\* unmounted calls no onEvent and logs no warning.
C12_UnmountDetaches ==
    [][ /\ \A m \in DOMAIN mounts :
              Unmounts(m)
                 /\ IsChild(children, mounts[m].options.container, mounts[m].element)
              => /\ ~IsChild(children', mounts[m].options.container, mounts[m].element)
                 /\ mounts'[m].listeners = {}
        /\ Dispatched /\ mounts[NewEvent.mount].unmounted
              => onEventCalls' = onEventCalls /\ warnings' = warnings ]_vars

\* A valid event was forwarded, the handle was unmounted, and the same event
\* dispatched again reached nobody.
C12_Witness ==
    /\ Len(dispatched) = 2
    /\ dispatched[1] = dispatched[2]
    /\ mounts[1].unmounted
    /\ children["c1"] = << >>
    /\ Len(onEventCalls) = 1 /\ warnings = << >>

\* C13: unmount takes the element out of the container only while the
\* container is its parent; when the element has been replaced in the
\* container or moved elsewhere, every container keeps its children; in both
\* cases no listener of the mount is left.
C13_UnmountOnlyOwnChild ==
    [][ \A m \in DOMAIN mounts :
           Unmounts(m)
           => LET c == mounts[m].options.container
                  e == mounts[m].element
              IN /\ mounts'[m].listeners = {}
                 /\ IF IsChild(children, c, e)
                    THEN /\ children'[c] = Without(children[c], e)
                         /\ \A d \in DOMAIN children : d # c => children'[d] = children[d]
                    ELSE children' = children ]_vars

\* The element of mount 1 was replaced by the fallback a later failed mount
\* rendered; its unmount left the fallback in place and detached the listener.
C13_Witness ==
    /\ Len(mounts) = 2
    /\ mounts[1].unmounted /\ mounts[1].listeners = {}
    /\ ListenedEvents(mounts[1].options) # {}
    /\ mounts[2].state = "rejected"
    /\ Len(children["c1"]) = 1
    /\ nodes[children["c1"][1]].text = "Failed to load"
    /\ children["c2"] = << >>

\* ------------------------------------------------------------------ properties of the mounted element
\* C14: after the script has loaded, a mount with dev and a props schema that
\* rejects its props rejects with the validation error, and the element it
\* created is in no container and has no attribute, no property and no
\* listener; a mount without dev or without props schema resolves whatever
\* its props.
C14_DevPropValidation ==
    [][ \A m \in DOMAIN mounts :
           Settles(m) /\ loads[mounts[m].load].state = "resolved"
           => LET options == mounts[m].options IN
              IF /\ options.dev
                 /\ options.manifest.props.defined
                 /\ options.props \notin options.manifest.props.accepts
              THEN /\ mounts'[m].state = "rejected"
                   /\ mounts'[m].error = [kind |-> "prop-validation", id |-> "", ms |-> 0]
                   /\ mounts'[m].listeners = {}
                   /\ \A n \in (DOMAIN nodes') \ (DOMAIN nodes) :
                         nodes'[n].tag = options.tagName
                         => /\ nodes'[n].attrs = << >> /\ nodes'[n].props = << >>
                            /\ \A c \in DOMAIN children' : ~IsChild(children', c, n)
              ELSE mounts'[m].state = "resolved" ]_vars

\* The 'host' property of the element of a resolved mount, as far as the
\* hostApi option decides it.
HostAttached(m) ==
    LET element == nodes[mounts[m].element]
        hostApi == mounts[m].options.hostApi
    IN hostApi # ""
       => /\ "host" \in DOMAIN element.props
          /\ element.props["host"] = ObjectVal(hostApi)
          /\ \A k \in DOMAIN element.props :
                k # "host" => element.props[k] # ObjectVal(hostApi)
\* No element other than those of resolved mounts has a 'host' property.
HostNowhereElse ==
    \A n \in DOMAIN nodes :
       "host" \in DOMAIN nodes[n].props
       => \E m \in DOMAIN mounts : mounts[m].state = "resolved" /\ mounts[m].element = n

\* C15: a resolved mount with a hostApi has that object as the element's
\* 'host' property and under no other property, no other element has a
\* 'host' property, and the element of a resolved mount without hostApi has
\* no 'host' property.
C15_HostOnlyFromHostApi ==
    /\ HostNowhereElse
    /\ \A m \in DOMAIN mounts :
          mounts[m].state = "resolved"
          => /\ HostAttached(m)
             /\ mounts[m].options.hostApi = ""
                  => "host" \notin DOMAIN nodes[mounts[m].element].props

\* C15 as amended: without hostApi the element has a 'host' property exactly
\* when props has an entry named 'host' whose value is not undefined, and it
\* is that value.
C15_HostProperty ==
    /\ HostNowhereElse
    /\ \A m \in DOMAIN mounts :
          mounts[m].state = "resolved"
          => /\ HostAttached(m)
             /\ mounts[m].options.hostApi = ""
                  => LET element == nodes[mounts[m].element]
                         entries == mounts[m].options.props
                         named == {i \in DOMAIN entries :
                                     entries[i][1] = "host" /\ entries[i][2].t # "undefined"}
                     IN /\ "host" \in DOMAIN element.props <=> named # {}
                        /\ \A i \in named : element.props["host"] = entries[i][2]

\* A mount with a hostApi and a prop named 'host' resolved: the property holds
\* the hostApi.
C15_Witness ==
    \E m \in DOMAIN mounts :
       /\ mounts[m].state = "resolved"
       /\ mounts[m].options.hostApi = "audit"
       /\ mounts[m].options.props = HostProps
       /\ nodes[mounts[m].element].props = [k \in {"host"} |-> ObjectVal("audit")]

\* ------------------------------------------------------------------ properties of the registry
\* C16: a step that changes the Registry is a registerRemote: it sets the
\* entry of one id to a registration of that id, keeps every other entry and
\* touches nothing else, so no loadRemote, mount, load, error or timeout
\* changes the Registry; a loadRemote of a registered id uses the url its
\* entry has at the call.
C16_RegistryLatest ==
    [][ /\ remoteRegistry' # remoteRegistry
           => /\ \E id \in DOMAIN remoteRegistry' :
                    /\ remoteRegistry'[id].id = id
                    /\ DOMAIN remoteRegistry' = (DOMAIN remoteRegistry) \cup {id}
                    /\ \A i \in DOMAIN remoteRegistry :
                          i # id => remoteRegistry'[i] = remoteRegistry[i]
              /\ loads' = loads /\ scripts' = scripts /\ scriptCache' = scriptCache
              /\ mounts' = mounts /\ nodes' = nodes /\ children' = children
        /\ Called /\ NewLoad.id \in DOMAIN remoteRegistry
           => /\ NewLoad.url = remoteRegistry[NewLoad.id].url
              /\ scripts'[NewLoad.script].src = remoteRegistry[NewLoad.id].url ]_vars

\* Id a was loaded from u1, registered again with u2 while b stayed
\* registered, and loaded from u2.
C16_Witness ==
    /\ Len(loads) = 2
    /\ loads[1].id = "a" /\ loads[1].url = "u1"
    /\ loads[2].id = "a" /\ loads[2].url = "u2"
    /\ DOMAIN remoteRegistry = {"a", "b"}
    /\ remoteRegistry["a"].url = "u2"

\* ------------------------------------------------------------------ properties of @accord/manifest
\* The version lies in the range as written: it passes every comparator the
\* range denotes.
InRange(v, range) ==
    \A i \in DOMAIN ParseRange(range).set : Test(ParseRange(range).set[i], v)

\* Results semver documents for given inputs.
Examples ==
    { << <<"^", "1", ".", "0", ".", "0">>, <<"1", ".", "2", ".", "3">>, TRUE >>,
      << <<"^", "2", ".", "0", ".", "0">>, <<"1", ".", "2", ".", "3">>, FALSE >>,
      << <<"n", "o", "t", "-", "a", "-", "r", "a", "n", "g", "e">>, <<"1", ".", "2", ".", "3">>, FALSE >>,
      << <<"~", "1", ".", "2">>, <<"1", ".", "2", ".", "3">>, TRUE >>,
      << <<"^", "0", ".", "2", ".", "3">>, <<"0", ".", "0", ".", "3">>, FALSE >>,
      << <<"1", ".", "x">>, <<"1", ".", "3">>, TRUE >>,
      << <<">", "1">>, <<"1", ".", "2", ".", "3", ".", "4">>, FALSE >> }

\* C17: a call of resolveCompatibility returns a boolean: false when the
\* range is not valid or the version cannot be coerced, otherwise whether the
\* coerced version lies in the range; in particular "^1.0.0" with "1.2.3" is
\* true, "^2.0.0" with "1.2.3" is false, "not-a-range" with "1.2.3" is false.
C17_ResolveCompatibility ==
    compat.called
    => LET range == compat.hostContractRange
           version == Coerce(compat.componentContractVersion)
       IN /\ compat.result \in BOOLEAN
          /\ ~ParseRange(range).ok \/ ~version.ok => compat.result = FALSE
          /\ ParseRange(range).ok /\ version.ok
                => (compat.result <=> InRange(version, range))
          /\ \A e \in Examples :
                e[1] = range /\ e[2] = compat.componentContractVersion
                => compat.result = e[3]

\* The three calls of the test and one that needs the coercion have been
\* answered: this one is "^1.0.0" with "v1.2.3".
C17_Witness ==
    /\ compat.called
    /\ compat.hostContractRange = <<"^", "1", ".", "0", ".", "0">>
    /\ compat.componentContractVersion = <<"v", "1", ".", "2", ".", "3">>
    /\ compat.result = TRUE

\* The section messages validateManifest can put on the list for manifest,
\* and those expected when IsSchema tells a schema and Present tells a
\* hostRequirements value that is there.
SectionMessage(label, name) == label \o " schema for \"" \o name \o "\" must be a Zod schema"
SectionMessages(manifest) ==
    {"Invalid meta section", "Props schema must be a Zod schema",
     "Invalid hostRequirements section"}
    \cup {SectionMessage("Event", manifest.events.entries[i][1]) :
             i \in DOMAIN manifest.events.entries}
    \cup {SectionMessage("Capability", manifest.capabilities.entries[i][1]) :
             i \in DOMAIN manifest.capabilities.entries}
ExpectedMessages(manifest, IsSchema(_), Present(_)) ==
    LET meta == manifest.meta
        host == manifest.hostRequirements
        filled(field) == field # << >> /\ field[1] # ""
        metaValid == /\ meta.t = "object"
                     /\ filled(meta.name) /\ filled(meta.version)
                     /\ filled(meta.contractVersion) /\ filled(meta.tagName)
        hostValid == /\ host.t = "object"
                     /\ host.styling \in {<< >>, <<"'shadow-dom'">>, <<"'no-shadow-dom'">>}
                     /\ host.designTokens \in {<< >>, <<"true">>, <<"false">>}
    IN (IF metaValid THEN {} ELSE {"Invalid meta section"})
       \cup (IF IsSchema(manifest.props) THEN {} ELSE {"Props schema must be a Zod schema"})
       \cup {SectionMessage("Event", manifest.events.entries[i][1]) :
                i \in {j \in DOMAIN manifest.events.entries :
                          ~IsSchema(manifest.events.entries[j][2])}}
       \cup {SectionMessage("Capability", manifest.capabilities.entries[i][1]) :
                i \in {j \in DOMAIN manifest.capabilities.entries :
                          ~IsSchema(manifest.capabilities.entries[j][2])}}
       \cup (IF Present(host) /\ ~hostValid
             THEN {"Invalid hostRequirements section"} ELSE {})
Reported(IsSchema(_), Present(_)) ==
    validation.called
    => LET errors == validation.result.errors
           expected == ExpectedMessages(validation.manifest, IsSchema, Present)
       IN /\ validation.result.success <=> errors = << >>
          /\ {errors[i] : i \in DOMAIN errors} \cap SectionMessages(validation.manifest)
                = expected
          /\ expected = {} => errors = << >> /\ validation.result.success

IsGenuineSchema(value) == value.zod
IsThere(value) == value.t \notin {"undefined", "null"}
HasDef(value) == value.t = "object" /\ value.def
IsTruthyValue(value) ==
    value.t = "object" \/ (value.t = "string" /\ value.s # "") \/ (value.t = "boolean" /\ value.b)

\* C18: validateManifest returns success exactly when its errors list is
\* empty, and the list names exactly the invalid sections: an invalid meta, a
\* props value that is no schema, each event and each capability whose value
\* is no schema, and hostRequirements that are there and invalid; a manifest
\* with valid sections gives success and no errors.
C18_ErrorsNameInvalidSections == Reported(IsGenuineSchema, IsThere)

\* C18 as amended: a value counts as a schema when it is an object with a
\* member _def, and hostRequirements are validated when the value is truthy.
C18_ErrorsNameRejectedSections == Reported(HasDef, IsTruthyValue)

\* The manifest of the test with an invalid capability schema and invalid
\* host requirements was reported for both and for nothing else.
C18_Witness ==
    /\ validation.called
    /\ validation.manifest.meta = ValidMeta
    /\ validation.manifest.props = ZodSchema
    /\ validation.manifest.events = Section("object", << >>)
    /\ validation.manifest.capabilities = Section("object", << <<"audit", TextValue>> >>)
    /\ validation.manifest.hostRequirements.styling = <<"'unknown'">>
    /\ ~validation.result.success
    /\ validation.result.errors =
          << "Capability schema for \"audit\" must be a Zod schema",
             "Invalid hostRequirements section",
             "Invalid enum value. Expected 'shadow-dom' | 'no-shadow-dom', received 'unknown'" >>

\* The element a mount creates: the only node with the tag of its options.
IsMountedTag(n) == nodes'[n].tag = "demo-element"
Created == {n \in (DOMAIN nodes') \ (DOMAIN nodes) : IsMountedTag(n)}
Placed(n) == \E c \in DOMAIN children' : IsChild(children', c, n)

\* C21: an element is created only by a mount whose load has succeeded; when
\* the props fail validation the element stays bare and out of the page; when
\* it becomes the child of the container it carries every applied prop, the
\* host capability if one was supplied and a listener for every event of the
\* manifest; and an event of the manifest dispatched on the attached element
\* always runs its handler.
C21_StepsInOrder ==
    [][ /\ \A n \in Created :
              \E m \in DOMAIN mounts :
                 /\ Settles(m)
                 /\ loads[mounts[m].load].state = "resolved"
                 /\ mounts'[m].state = "resolved" => mounts'[m].element = n
                 /\ mounts'[m].state = "rejected"
                      => nodes'[n] = CreateElement("demo-element") /\ ~Placed(n)
        /\ \A m \in DOMAIN mounts :
              Settles(m) /\ mounts'[m].state = "resolved"
              => LET options == mounts[m].options
                     n == mounts'[m].element
                 IN /\ n \in Created
                    /\ children'[options.container] = <<n>>
                    /\ \A i \in DOMAIN options.props :
                          LET key == options.props[i][1]
                              value == options.props[i][2]
                          IN value.t # "undefined" /\ ~(key = "host" /\ options.hostApi # "")
                             => /\ key \in DOMAIN nodes'[n].props
                                /\ nodes'[n].props[key] = value
                    /\ options.hostApi # ""
                          => /\ "host" \in DOMAIN nodes'[n].props
                             /\ nodes'[n].props["host"] = ObjectVal(options.hostApi)
                    /\ mounts'[m].listeners = DOMAIN options.manifest.events
        /\ Dispatched =>
              LET m == NewEvent.mount
                  options == mounts[m].options
              IN /\ IsChild(children, options.container, mounts[m].element)
                 /\ NewEvent.eventName \in DOMAIN options.manifest.events
                 /\ options.onEvent
                 => \/ Len(onEventCalls') = Len(onEventCalls) + 1
                    \/ Len(warnings') = Len(warnings) + 1
      ]_vars

\* A mount with props, host capability and event map resolved once its
\* script had loaded, and an event dispatched on its element reached onEvent.
C21_Witness ==
    /\ Len(mounts) = 1 /\ mounts[1].state = "resolved"
    /\ mounts[1].options.hostApi = "audit" /\ mounts[1].options.props = UserProps
    /\ scripts[1].state = "loaded"
    /\ children["c1"] = <<mounts[1].element>>
    /\ Len(onEventCalls) = 1 /\ onEventCalls[1].eventName = "user:selected"

\* C22: a mount that fails with a fallback supplied (an element, a string,
\* the empty string included, or a function that returns an element) leaves
\* the container with the fallback as its only child: none of its earlier
\* children, and for a string one new element with that text.
C22_FallbackReplacesChildren ==
    [][ \A m \in DOMAIN mounts :
           LET fallback == mounts[m].options.fallback IN
           /\ Settles(m) /\ mounts'[m].state = "rejected"
           /\ fallback.kind # "undefined"
           /\ ~(fallback.kind = "function" /\ fallback.throws)
           => LET kids == children'[mounts[m].options.container] IN
              /\ Len(kids) = 1
              /\ \A i \in DOMAIN children[mounts[m].options.container] :
                    children[mounts[m].options.container][i] # kids[1]
                       \/ kids[1] = fallback.node
              /\ fallback.kind = "element" => kids[1] = fallback.node
              /\ fallback.kind # "element" => kids[1] \notin DOMAIN nodes
              /\ fallback.kind = "string" => nodes'[kids[1]].text = fallback.text
      ]_vars

\* C23: without dev, an event of the manifest's event map dispatched on the
\* element of a mount that has not been unmounted reaches onEvent exactly
\* once, with its name and payload, whether the schema accepts the payload or
\* not, and no warning is ever logged for such a mount.
C23_NoDevForwardsAll ==
    [][ /\ Dispatched =>
              LET m == NewEvent.mount
                  options == mounts[m].options
              IN /\ ~options.dev
                 /\ ~mounts[m].unmounted
                 /\ NewEvent.eventName \in DOMAIN options.manifest.events
                 => /\ warnings' = warnings
                    /\ onEventCalls' =
                         IF options.onEvent
                         THEN Append(onEventCalls,
                                     [mount |-> m, eventName |-> NewEvent.eventName,
                                      payload |-> NewEvent.payload])
                         ELSE onEventCalls
        /\ \A w \in DOMAIN warnings' : mounts'[warnings'[w].mount].options.dev
      ]_vars

\* Without dev, a payload the schema rejects was forwarded to onEvent.
C23_Witness ==
    /\ Len(mounts) = 1 /\ ~mounts[1].options.dev /\ mounts[1].options.onEvent
    /\ \E c \in DOMAIN onEventCalls :
          /\ onEventCalls[c].eventName = "user:selected"
          /\ onEventCalls[c].payload = "{id: 42}"
          /\ ~Parses(mounts[1].options.manifest.events["user:selected"], "{id: 42}")
    /\ warnings = << >>

\* C24: a second call of a handle's unmount changes nothing: the container,
\* the element, the listeners and every other mount stay as the first call
\* left them, also when a later mount has filled the container in between;
\* and no call of unmount raises.
C24_UnmountIdempotent ==
    [][ /\ \A m \in DOMAIN mounts :
              mounts[m].unmounted /\ ~mounts[m].repeated /\ mounts'[m].repeated
              => /\ children' = children
                 /\ nodes' = nodes
                 /\ mounts'[m].listeners = mounts[m].listeners
                 /\ mounts'[m].element = mounts[m].element
                 /\ \A o \in DOMAIN mounts : o # m => mounts'[o] = mounts[o]
        /\ \A m \in DOMAIN mounts' : ~mounts'[m].threw
      ]_vars

\* The first handle was unmounted, a second mount put its element into the
\* same container, and the first handle's unmount was called again: the
\* second element is still the container's only child.
C24_Witness ==
    /\ Len(mounts) = 2
    /\ mounts[1].unmounted /\ mounts[1].repeated
    /\ mounts[2].state = "resolved" /\ ~mounts[2].unmounted
    /\ mounts[1].options.container = mounts[2].options.container
    /\ children[mounts[2].options.container] = <<mounts[2].element>>

\* C25: a call whose registration carries an integrity value resolves only
\* with a script that was injected with that integrity value.  (Every id
\* keeps one registration in these runs, so the registry still holds the
\* registration the call read.)
C25_ResolvesWithOwnIntegrity ==
    \A c \in DOMAIN loads :
       /\ loads[c].state = "resolved"
       /\ remoteRegistry[loads[c].id].integrity # ""
       => scripts[loads[c].script].integrity = remoteRegistry[loads[c].id].integrity

\* C26: every loadRemote call eventually settles, and so does every mount
\* call, also when the script never signals load or error.
C26_EveryCallSettles ==
    /\ \A c \in 1..MaxLiveCalls :
          (c \in DOMAIN loads)
             ~> (c \in DOMAIN loads /\ loads[c].state \in {"resolved", "rejected"})
    /\ \A m \in 1..MaxLiveCalls :
          (m \in DOMAIN mounts)
             ~> (m \in DOMAIN mounts /\ mounts[m].state \in {"resolved", "rejected"})

\* The script never signalled: the call timed out, and the mount that
\* awaited it rejected with the timeout error.
C26_Witness ==
    /\ Len(mounts) >= 1 /\ mounts[1].state = "rejected"
    /\ mounts[1].error.kind = "timeout"
    /\ loads[mounts[1].load].state = "rejected"
    /\ scripts[loads[mounts[1].load].script].state = "pending"

\* C27: a mount that has rejected is finished: its record never changes, and
\* the page changes only in a step in which another mount settles or a handle
\* is unmounted, so a script that loads later brings no element of the
\* rejected mount; a call that finds the loaded script in the cache injects
\* nothing, and a mount that awaited such a call succeeds (unless its own
\* props fail validation).
C27_RejectedMountIsFinished ==
    [][ /\ \A m \in DOMAIN mounts :
              mounts[m].state = "rejected" => mounts'[m] = mounts[m]
        /\ nodes' # nodes \/ children' # children
              => \E o \in DOMAIN mounts :
                    \/ Settles(o)
                    \/ mounts[o].state = "resolved" /\ mounts'[o].unmounted
        /\ Called /\ NewLoad.found = "loaded" => scripts' = scripts
        /\ \A m \in DOMAIN mounts :
              /\ Settles(m)
              /\ loads[mounts[m].load].found = "loaded"
              /\ ~PropsRejected(mounts[m].options)
              => /\ mounts'[m].state = "resolved"
                 /\ children'[mounts[m].options.container] = <<mounts'[m].element>>
      ]_vars

\* The first mount timed out and rendered its fallback; the script loaded
\* afterwards; the second mount found it in the cache and succeeded with the
\* one script.
C27_Witness ==
    /\ Len(mounts) = 2 /\ Len(scripts) = 1
    /\ mounts[1].state = "rejected" /\ mounts[1].error.kind = "timeout"
    /\ mounts[1].options.fallback = StringFallback("Failed to load")
    /\ mounts[1].element = 0
    /\ scripts[1].state = "loaded"
    /\ loads[mounts[2].load].found = "loaded"
    /\ mounts[2].state = "resolved"
    /\ children["c1"] = <<mounts[2].element>>

\* C28: a mount without fallback that fails, at whichever step, leaves the
\* children of every container as they were, returns no element and has no
\* listener; the element it may have created stays bare and out of the page;
\* and onEvent is only ever invoked for a mount that succeeded.
C28_FailureWithoutFallback ==
    [][ /\ \A m \in DOMAIN mounts :
              /\ Settles(m) /\ mounts'[m].state = "rejected"
              /\ mounts[m].options.fallback.kind = "undefined"
              => /\ children' = children
                 /\ mounts'[m].element = 0
                 /\ mounts'[m].listeners = {}
                 /\ \A n \in (DOMAIN nodes') \ (DOMAIN nodes) :
                       nodes'[n] = CreateElement(mounts[m].options.tagName) /\ ~Placed(n)
        /\ \A m \in DOMAIN mounts' :
              mounts'[m].state = "rejected" => mounts'[m].listeners = {}
        /\ \A k \in DOMAIN onEventCalls' :
              mounts'[onEventCalls'[k].mount].state = "resolved"
      ]_vars

\* A mount without fallback whose props failed validation: the page's two
\* elements are still the children of the container, the created element is
\* bare and detached, and the manifest's event has no listener.
C28_Witness ==
    /\ Len(mounts) = 1 /\ mounts[1].state = "rejected"
    /\ mounts[1].error.kind = "prop-validation"
    /\ mounts[1].options.fallback = NoFallback
    /\ DOMAIN mounts[1].options.manifest.events # {}
    /\ children["c1"] = <<1, 2>> /\ children["c2"] = << >>
    /\ Len(nodes) = 4 /\ nodes[4] = CreateElement("demo-element")
    /\ mounts[1].listeners = {}

\* The mount m settles after at least one other mount into its container,
\* and no mount is left waiting.
SettlesLast(m) ==
    /\ Settles(m)
    /\ \E o \in DOMAIN mounts :
          o # m /\ mounts[o].options.container = mounts[m].options.container
    /\ \A o \in DOMAIN mounts : o # m => mounts[o].state # "loading"

\* What the settling mount m wrote is the only child of its container.
HoldsWrittenBy(m) ==
    LET fallback == mounts[m].options.fallback
        kids == children'[mounts[m].options.container]
    IN /\ Len(kids) = 1
       /\ IF mounts'[m].state = "resolved" THEN kids[1] = mounts'[m].element
          ELSE IF fallback.kind = "element" THEN kids[1] = fallback.node
          ELSE kids[1] \notin DOMAIN nodes

\* A call of unmount on the handle of o removes nothing but o's element.
UnmountSparesOthers ==
    \A o \in DOMAIN mounts :
       mounts[o].state = "resolved" /\ mounts'[o] # mounts[o]
       => \A c \in DOMAIN children, n \in DOMAIN nodes :
             IsChild(children, c, n) /\ n # mounts[o].element => IsChild(children', c, n)

\* C29 as stated: when the last of several mounts into one container settles,
\* the container holds exactly one child, the element or fallback of that
\* mount; the elements of the earlier handles are detached, and their unmount
\* removes nothing of the later mount.
C29_LastMountWins ==
    [][ /\ \A m \in DOMAIN mounts :
              SettlesLast(m)
              => /\ HoldsWrittenBy(m)
                 /\ \A o \in DOMAIN mounts :
                       o # m /\ mounts[o].state = "resolved"
                       => ~IsChild(children', mounts[o].options.container, mounts[o].element)
        /\ UnmountSparesOthers
      ]_vars

\* C29, amended: the same for a mount that succeeds or renders a fallback; a
\* mount that fails and renders nothing (no fallback, the empty string, a
\* fallback function that throws) leaves every container as it was.
C29_LastWriterWins ==
    [][ /\ \A m \in DOMAIN mounts :
              SettlesLast(m)
              => IF \/ mounts'[m].state = "resolved"
                    \/ ProducesFallback(mounts[m].options.fallback)
                 THEN /\ HoldsWrittenBy(m)
                      /\ \A o \in DOMAIN mounts :
                            o # m /\ mounts[o].state = "resolved"
                            => ~IsChild(children', mounts[o].options.container,
                                        mounts[o].element)
                 ELSE children' = children
        /\ UnmountSparesOthers
      ]_vars

\* Two mounts into one container succeeded; the container holds the element
\* of the second, and the unmount of the first handle left it there.
C29_Witness ==
    /\ Len(mounts) = 2
    /\ mounts[1].state = "resolved" /\ mounts[2].state = "resolved"
    /\ mounts[1].options.container = mounts[2].options.container
    /\ mounts[1].unmounted /\ ~mounts[2].unmounted
    /\ children[mounts[2].options.container] = <<mounts[2].element>>
    /\ mounts[1].element # mounts[2].element

\* C30: onEvent is invoked only by the dispatch of an event whose name is in
\* the event map of the mount's manifest, and with that name as its first
\* argument: an event of another name, or any event of a mount without event
\* map, invokes nothing, with dev and without.
C30_OnlyManifestEvents ==
    [][ /\ Dispatched /\
              NewEvent.eventName \notin DOMAIN mounts[NewEvent.mount].options.manifest.events
              => onEventCalls' = onEventCalls
        /\ onEventCalls' # onEventCalls
              => /\ Dispatched
                 /\ Len(onEventCalls') = Len(onEventCalls) + 1
                 /\ onEventCalls'[Len(onEventCalls')].mount = NewEvent.mount
                 /\ onEventCalls'[Len(onEventCalls')].eventName = NewEvent.eventName
        /\ \A k \in DOMAIN onEventCalls' :
              onEventCalls'[k].eventName
                 \in DOMAIN mounts'[onEventCalls'[k].mount].options.manifest.events
      ]_vars

\* With dev, an event of a name outside the event map and an event of the
\* map were dispatched on the element: only the second reached onEvent.
C30_Witness ==
    /\ Len(mounts) = 1 /\ mounts[1].options.dev /\ mounts[1].options.onEvent
    /\ Len(dispatched) = 2
    /\ dispatched[1].eventName = "other"
    /\ dispatched[1].eventName \notin DOMAIN mounts[1].options.manifest.events
    /\ dispatched[2].eventName = "user:selected"
    /\ Len(onEventCalls) = 1 /\ onEventCalls[1].eventName = "user:selected"

\* C20: over every sequence of registrations, loads, mounts and script and
\* timer events: no URL has two scripts loading at once, every cache entry
\* holds a script that is loading or has loaded, and no script is injected for
\* a URL one of whose scripts has loaded.
C20_LoadCacheInvariant ==
    [][ /\ \A s1, s2 \in DOMAIN scripts' :
              /\ scripts'[s1].src = scripts'[s2].src
              /\ scripts'[s1].state = "pending" /\ scripts'[s2].state = "pending"
              => s1 = s2
        /\ \A u \in DOMAIN scriptCache' :
              scripts'[scriptCache'[u]].state \in {"pending", "loaded"}
        /\ \A s \in DOMAIN scripts :
              scripts[s].state = "loaded"
              => \A n \in (DOMAIN scripts') \ (DOMAIN scripts) :
                    scripts'[n].src # scripts[s].src
      ]_vars

\* ------------------------------------------------------------------ properties of @accord/types
\* C19: a run that is given both manifest path and manifest URL, or neither,
\* or whose manifest URL answers not ok, or whose fetched JSON lacks meta,
\* props or events, ends with an error (through the CLI: exit code 1), and it
\* has written no types file and created nothing on the file system.
C19_FailuresLeaveNothing ==
    LET args == typegen.args
        failing ==
            \/ args.manifestPath /\ args.manifestUrl
            \/ ~args.manifestPath /\ ~args.manifestUrl
            \/ /\ args.manifestUrl /\ ~args.manifestPath
               /\ \/ ~typegen.response.ok
                  \/ typegen.response.json \in {"no-meta", "no-props", "no-events"}
    IN /\ typegen.pc = "done" => ~failing
       /\ typegen.pc \in {"exited", "rejected"} /\ failing
            => /\ typegen.error # ""
               /\ typegen.via = "cli" => typegen.exitCode = 1
               /\ typegen.fs = {}

\* C31: every call of schemaToType returns (the call stack never fills up),
\* and what it returns is the type with 'unknown' at each reference to a
\* definition that is already being translated, whether the chain back to it
\* runs through $ref alone or through properties, items or members.
C31_TranslationTerminates ==
    translation.called
    => /\ translation.result.ok
       /\ translation.result =
            Translate(translation.schema, translation.definitions, {}, 1, TRUE)

====
